---- MODULE Spec2Model ----
(***************************************************************************)
(* A model of graphly: the prefix / URI algebra (schema/prefix.py,         *)
(* schema/prefixes.py), the query classifier (tools/query.py), the generic *)
(* SPARQL client (schema/sparql.py), the named graph (schema/graph.py) and *)
(* the backend adapters (sparql/*.py).                                     *)
(*                                                                         *)
(* Python strings are sequences of one-character strings, so that          *)
(* str.replace, `in`, startswith and endswith are computed as Python       *)
(* computes them.                                                          *)
(***************************************************************************)
EXTENDS Integers, Sequences, FiniteSets, TLC

VARIABLES
    \* the prefix algebra under test
    registry,   \* Prefixes.prefix_list of the registry under test
    token,      \* the string handed to the first call
    cur,        \* the string returned by the last call
    calls,      \* the calls made so far, oldest first
    \* a client and the call made on it
    backend,    \* the class of the client: Sparql, Fuseki, GraphDB, Allegrograph
    prefixes,   \* the `prefixes` argument: None, a registry of the caller, or Prefixes()
    defaults,   \* the list object that is the default of Prefixes.__init__
    pc,         \* where the call stands: idle, insert, done, raised
    error,      \* the exception that ended the call, "" when none
    requests,   \* the HTTP requests sent, oldest first
    store,      \* the chunks the store committed, oldest first
    \* Sparql.insert / Graph.insert
    via,        \* the call is made on the client or through Graph.insert
    triples,    \* the list of triples handed over
    graph_uri,  \* the graph_uri argument (Graph.uri)
    chunkIdx,   \* the index of the next chunk of chunked_triples
    \* run
    text,       \* the text handed to run, a sequence of lexical items
    \* Graph.dump_dict / Fuseki.dump
    dumpOp,     \* the dump under way: Graph.dump_dict or Fuseki.dump
    script,     \* the rows a scripted backend returns, request after request
    sizes,      \* the triples a faithful store holds: default graph, named graphs
    gi,         \* Fuseki.dump: the position in `graphs` of the graph being read
    offset,     \* the offset of the next paginated query
    fetches,    \* the paginated queries made and the rows each returned
    result,     \* the rows gathered so far, as the pages they came in
    dpc,        \* where the dump stands: idle, loop, done, raised
    \* prepare / prepare_triple
    pArg,       \* the token handed to prepare
    pNames,     \* the prefixes_names handed to prepare
    pOuts,      \* what prepare returned, call after call on its own result
    pLine,      \* what prepare_triple returned for a triple with pArg as object
    \* Model
    mSparql,    \* self.sparql of the model: "None", "bound" (the client given
                \* to the constructor) or "rebound" (the client of a graph
                \* handed to update)
    mPrefixes,  \* self.prefixes of the model: a registry, or no such attribute
    classes,    \* self.classes, the classes snapshot
    properties, \* self.properties, the properties snapshot
    nGen,       \* the get_classes calls made: each builds its Resource objects
    facts,      \* what the store holds: a typed instance, an integer-valued property
    mOps,       \* the operations called on the model
    mOp,        \* the last operation called
    mAnswers,   \* how the backend answered the requests of the last operation
    mArgs,      \* the URI arguments of the last operation
    mRet        \* what the last operation returned or raised

prefixVars == <<registry, token, cur, calls>>

clientVars == <<backend, prefixes, defaults, pc, error, requests, store>>

insertVars == <<via, triples, graph_uri, chunkIdx>>

runVars == <<text>>

dumpVars == <<dumpOp, script, sizes, gi, offset, fetches, result, dpc>>

prepVars == <<pArg, pNames, pOuts, pLine>>

modelVars == <<mSparql, mPrefixes, classes, properties, nGen, facts, mOps, mOp, mArgs, mAnswers, mRet>>

vars == <<prefixVars, clientVars, insertVars, runVars, dumpVars, prepVars, modelVars>>

-----------------------------------------------------------------------------
(* Bounds of the model *)

\* longest input string
MaxLen == 4

\* most chunks an inserted list fills
MaxChunks == 3

\* most items in front of the keyword of a request text
MaxHeader == 2

\* most run calls made on one client
MaxRuns == 2

\* most pages a scripted backend returns
MaxPages == 3

\* most named graphs a store holds
MaxGraphs == 1

\* longest token handed to prepare
MaxTok == 3

\* most operations called on one model
MaxModelOps == 2

\* most properties in a snapshot handed to is_prop_mandatory
MaxProps == 2

-----------------------------------------------------------------------------
(* Python str primitives *)

\* s[i:] for 0-based i, as a sequence
Drop(s, i) == SubSeq(s, i + 1, Len(s))

\* s[:i]
Take(s, i) == SubSeq(s, 1, i)

\* s.startswith(p)
StartsWith(s, p) == Len(p) <= Len(s) /\ Take(s, Len(p)) = p

\* s.endswith(p)
EndsWith(s, p) == Len(p) <= Len(s) /\ Drop(s, Len(s) - Len(p)) = p

\* p occurs in s starting at 1-based position i
OccursAt(s, p, i) == i + Len(p) - 1 <= Len(s) /\ SubSeq(s, i, i + Len(p) - 1) = p

\* `p in s`
Contains(s, p) == \E i \in 1..(Len(s) + 1) : OccursAt(s, p, i)

\* s.replace(old, new) for non-empty old: every non-overlapping occurrence,
\* scanning left to right
RECURSIVE ReplaceNonEmpty(_, _, _)
ReplaceNonEmpty(s, old, new) ==
    IF Len(s) < Len(old) THEN s
    ELSE IF StartsWith(s, old) THEN new \o ReplaceNonEmpty(Drop(s, Len(old)), old, new)
    ELSE <<s[1]>> \o ReplaceNonEmpty(Drop(s, 1), old, new)

\* s.replace("", new): new before every character and at the end
RECURSIVE ReplaceEmpty(_, _)
ReplaceEmpty(s, new) ==
    IF s = <<>> THEN new
    ELSE new \o <<s[1]>> \o ReplaceEmpty(Drop(s, 1), new)

\* s.replace(old, new)
Replace(s, old, new) ==
    IF old = <<>> THEN ReplaceEmpty(s, new) ELSE ReplaceNonEmpty(s, old, new)

-----------------------------------------------------------------------------
(* schema/prefix.py *)

\* Prefix(short, url)
Prefix(short, url) == [short |-> short, long |-> url]

\* self.short + ':'
ShortColon(p) == p.short \o <<":">>

\* Prefix.shorten(uri)
Prefix_shorten(p, uri) ==
    IF Contains(uri, p.long)
    THEN LET u1 == IF StartsWith(uri, <<"<">>) THEN Drop(uri, 1) ELSE uri
             u2 == IF EndsWith(u1, <<">">>) THEN Take(u1, Len(u1) - 1) ELSE u1
         IN  Replace(u2, p.long, ShortColon(p))
    ELSE uri

\* Prefix.lengthen(short)
Prefix_lengthen(p, short) == Replace(short, ShortColon(p), p.long)

-----------------------------------------------------------------------------
(* schema/prefixes.py *)

\* Prefixes.has(short)
Prefixes_has(list, short) == \E i \in 1..Len(list) : list[i].short = short

\* Prefixes.shorten(uri): the fold of Prefix.shorten over prefix_list
RECURSIVE Prefixes_shorten(_, _)
Prefixes_shorten(list, uri) ==
    IF list = <<>> THEN uri
    ELSE Prefixes_shorten(Tail(list), Prefix_shorten(Head(list), uri))

\* Prefixes.lengthen(uri): the fold of Prefix.lengthen over prefix_list
RECURSIVE Prefixes_lengthen(_, _)
Prefixes_lengthen(list, uri) ==
    IF list = <<>> THEN uri
    ELSE Prefixes_lengthen(Tail(list), Prefix_lengthen(Head(list), uri))

\* Prefixes.shorts()
Prefixes_shorts(list) == [i \in 1..Len(list) |-> list[i].short]

-----------------------------------------------------------------------------
(* Inputs of the prefix algebra *)

\* the characters of the input strings: h is the namespace stem, e and x are
\* name characters
Alphabet == {"h", "e", "x", ":", "<", ">"}

\* every string of at most n characters
Strings(n) == UNION {[1..k -> Alphabet] : k \in 0..n}

\* ex: <h>
PrefixEx == Prefix(<<"e">>, <<"h">>)

\* x: <hh>, a namespace that the namespace of ex leads
PrefixDeep == Prefix(<<"x">>, <<"h", "h">>)

\* x: <x>, a namespace disjoint from that of ex
PrefixOther == Prefix(<<"x">>, <<"x">>)

\* the registries under test
Registries ==
    { <<>>,
      <<PrefixEx>>,
      <<PrefixEx, PrefixOther>>,
      <<PrefixEx, PrefixDeep>>,
      <<PrefixDeep, PrefixEx>> }

-----------------------------------------------------------------------------
(* The prefix algebra as a state machine: a first call on `token`, then an *)
(* optional second call on the first call's result.                        *)

\* no prefix call is under way
PrefixIdle == registry = <<>> /\ token = <<>> /\ cur = <<>> /\ calls = <<>>

\* no client call is under way
ClientIdle ==
    /\ backend = "Sparql"
    /\ prefixes = [kind |-> "None", list |-> <<>>]
    /\ defaults = <<>>
    /\ pc = "idle"
    /\ error = ""
    /\ requests = <<>>
    /\ store = <<>>

\* no insert is under way
InsertIdle ==
    /\ via = "client"
    /\ triples = [n |-> 0, plainAt |-> 0]
    /\ graph_uri = [t |-> "none", s |-> <<>>]
    /\ chunkIdx = 0

\* no run is under way
RunIdle == text = <<>>

\* a value not set yet
Unset == [t |-> "unset"]

\* no prepare call is made
PrepIdle ==
    /\ pArg = Unset
    /\ pNames = [none |-> TRUE, list |-> <<>>]
    /\ pOuts = <<>>
    /\ pLine = Unset

\* what an operation that has not been called returned
NoReturn == [kind |-> "none", exc |-> "", val |-> <<>>]

\* no model is in use
ModelIdle ==
    /\ mSparql = "None"
    /\ mPrefixes = [kind |-> "unset", list |-> <<>>]
    /\ classes = <<>>
    /\ properties = <<>>
    /\ nGen = 0
    /\ facts = {}
    /\ mOps = 0
    /\ mOp = ""
    /\ mArgs = <<>>
    /\ mAnswers = <<>>
    /\ mRet = NoReturn

\* no dump is under way
DumpIdle ==
    /\ dumpOp = "none"
    /\ script = <<>>
    /\ sizes = <<>>
    /\ gi = 0
    /\ offset = 0
    /\ fetches = <<>>
    /\ result = <<>>
    /\ dpc = "idle"

Init ==
    /\ registry \in Registries
    /\ token \in Strings(MaxLen)
    /\ cur = token
    /\ calls = <<>>
    /\ ClientIdle
    /\ InsertIdle
    /\ RunIdle
    /\ DumpIdle
    /\ PrepIdle
    /\ ModelIdle

\* P.shorten(cur) for the i-th prefix of the registry
CallPrefixShorten(i) ==
    /\ Len(calls) = 0 \/ calls = <<[op |-> "Prefix.lengthen", idx |-> i]>>
    /\ cur' = Prefix_shorten(registry[i], cur)
    /\ calls' = Append(calls, [op |-> "Prefix.shorten", idx |-> i])
    /\ UNCHANGED <<registry, token, clientVars, insertVars, runVars, dumpVars, prepVars, modelVars>>

\* P.lengthen(cur) for the i-th prefix of the registry
CallPrefixLengthen(i) ==
    /\ Len(calls) = 0 \/ calls = <<[op |-> "Prefix.shorten", idx |-> i]>>
    /\ cur' = Prefix_lengthen(registry[i], cur)
    /\ calls' = Append(calls, [op |-> "Prefix.lengthen", idx |-> i])
    /\ UNCHANGED <<registry, token, clientVars, insertVars, runVars, dumpVars, prepVars, modelVars>>

\* registry.shorten(cur)
CallPrefixesShorten ==
    /\ Len(calls) = 0 \/ calls = <<[op |-> "Prefixes.lengthen", idx |-> 0]>>
    /\ cur' = Prefixes_shorten(registry, cur)
    /\ calls' = Append(calls, [op |-> "Prefixes.shorten", idx |-> 0])
    /\ UNCHANGED <<registry, token, clientVars, insertVars, runVars, dumpVars, prepVars, modelVars>>

\* registry.lengthen(cur)
CallPrefixesLengthen ==
    /\ Len(calls) = 0 \/ calls = <<[op |-> "Prefixes.shorten", idx |-> 0]>>
    /\ cur' = Prefixes_lengthen(registry, cur)
    /\ calls' = Append(calls, [op |-> "Prefixes.lengthen", idx |-> 0])
    /\ UNCHANGED <<registry, token, clientVars, insertVars, runVars, dumpVars, prepVars, modelVars>>

Next ==
    \/ \E i \in 1..Len(registry) : CallPrefixShorten(i)
    \/ \E i \in 1..Len(registry) : CallPrefixLengthen(i)
    \/ CallPrefixesShorten
    \/ CallPrefixesLengthen

Spec == Init /\ [][Next]_vars

-----------------------------------------------------------------------------
(* Vocabulary of the prefix claims *)

\* the calls made are exactly op1 then op2 on the i-th prefix (0: the registry)
Called2(op1, op2, i) == calls = <<[op |-> op1, idx |-> i], [op |-> op2, idx |-> i]>>

\* the only call made is op on the registry
Called1(op) == calls = <<[op |-> op, idx |-> 0]>>

\* s holds no angle bracket
NoBrackets(s) == \A k \in 1..Len(s) : s[k] \notin {"<", ">"}

\* u is a URI of p's namespace, bare or wrapped in angle brackets
InNamespace(p, u) ==
    \/ StartsWith(u, p.long) /\ NoBrackets(u)
    \/ /\ StartsWith(u, <<"<">> \o p.long)
       /\ EndsWith(u, <<">">>)
       /\ NoBrackets(SubSeq(u, 2, Len(u) - 1))

\* t is a compact token short:local of a registered prefix
IsCompact(list, t) ==
    NoBrackets(t) /\ \E i \in 1..Len(list) : StartsWith(t, ShortColon(list[i]))

\* t starts with a registered namespace
IsRegisteredUri(list, t) == \E i \in 1..Len(list) : StartsWith(t, list[i].long)

-----------------------------------------------------------------------------
(* C1..C3: the prefix algebra *)

\* C1: for every prefix P of the registry and every URI U of P's namespace,
\* bare or in angle brackets and whatever its local part,
\* P.lengthen(P.shorten(U)) = U.
C1_PrefixRoundTrip ==
    \A i \in 1..Len(registry) :
        Called2("Prefix.shorten", "Prefix.lengthen", i) /\ InNamespace(registry[i], token)
            => cur = token

\* C2: for every registry, overlapping namespaces included, and every compact
\* token T = short:local with a registered short name,
\* Prefixes.shorten(Prefixes.lengthen(T)) = T.
C2_RegistryRoundTrip ==
    Called2("Prefixes.lengthen", "Prefixes.shorten", 0) /\ IsCompact(registry, token)
        => cur = token

\* C3: a token without angle brackets that starts neither with a registered
\* namespace nor with a registered `short:` is returned unchanged by
\* Prefixes.shorten and by Prefixes.lengthen.
C3_UnregisteredUnchanged ==
    /\ Called1("Prefixes.shorten") \/ Called1("Prefixes.lengthen")
    /\ NoBrackets(token)
    /\ ~IsCompact(registry, token)
    /\ ~IsRegisteredUri(registry, token)
    => cur = token

-----------------------------------------------------------------------------
(* tools/query.py: a request text is a sequence of lexical items, each a   *)
(* blank line ("blank"), a comment line ending in a line break             *)
(* ("comment"), a PREFIX declaration in upper or lower case ("PREFIX",     *)
(* "prefix"), a keyword in some letter case, or a non-word item ("{").     *)

\* the items \s* matches
IsBlank(item) == item = "blank"

\* the items (?:#.*\n) matches
IsComment(item) == item = "comment"

\* the items PREFIX\s+\w*:\s*<[^>]*> matches under re.IGNORECASE
IsPrefixDecl(item) == item \in {"PREFIX", "prefix"}

\* str.upper() of a word item; a non-word item has no \w+ match
Upper(item) ==
    CASE item \in {"SELECT", "select", "Select"} -> "SELECT"
      [] item \in {"CONSTRUCT", "construct"} -> "CONSTRUCT"
      [] item \in {"INSERT", "insert"} -> "INSERT"
      [] item \in {"DELETE", "delete"} -> "DELETE"
      [] item \in {"CLEAR", "clear"} -> "CLEAR"
      [] item \in {"ASK", "ask"} -> "ASK"
      [] OTHER -> "nonword"

\* q.lstrip() and a leading \s* of a match: the leading blank items go
RECURSIVE SkipBlanks(_)
SkipBlanks(q) == IF q # <<>> /\ IsBlank(Head(q)) THEN SkipBlanks(Tail(q)) ELSE q

\* re.sub(r'^(?:\s*#.*\n)*', '', q): the leading run of comment lines, each
\* with the blanks before it, goes; blanks not followed by a comment stay
RECURSIVE StripComments(_)
StripComments(q) ==
    LET r == SkipBlanks(q)
    IN  IF r # <<>> /\ IsComment(Head(r)) THEN StripComments(Tail(r)) ELSE q

\* re.sub(r'^(?:\s*PREFIX\s+\w*:\s*<[^>]*>\s*)*', '', q, flags=re.IGNORECASE):
\* the leading run of PREFIX declarations goes, with the blanks around them
RECURSIVE StripPrefixDecls(_)
StripPrefixDecls(q) ==
    LET r == SkipBlanks(q)
    IN  IF r # <<>> /\ IsPrefixDecl(Head(r)) THEN StripPrefixDecls(SkipBlanks(Tail(r))) ELSE q

\* the keywords get_sparql_type returns as they are
KnownTypes == {"SELECT", "CONSTRUCT", "INSERT", "DELETE", "CLEAR"}

\* get_sparql_type(query)
get_sparql_type(query) ==
    LET q1 == SkipBlanks(query)
        q2 == StripComments(q1)
        q3 == StripPrefixDecls(q2)
        q4 == SkipBlanks(q3)
    IN  IF q4 # <<>> /\ Upper(Head(q4)) \in KnownTypes THEN Upper(Head(q4)) ELSE "OTHER"

-----------------------------------------------------------------------------
(* tools/uri.py, tools/triple.py: a value is None or a string *)

\* None
NoneV == [t |-> "none", s |-> <<>>]

\* a str
Str(s) == [t |-> "str", s |-> s]

\* what a call that raises TypeError yields
Raised == [t |-> "raise", s |-> <<>>]

\* s.find(c): the lowest 0-based index of character c, -1 when there is none
Find(s, c) ==
    IF \E k \in 1..Len(s) : s[k] = c
    THEN (CHOOSE k \in 1..Len(s) : s[k] = c /\ \A j \in 1..(k - 1) : s[j] # c) - 1
    ELSE -1

\* s[0:k] for k >= -1
SliceTo(s, k) == IF k >= 0 THEN Take(s, k) ELSE Take(s, Len(s) - 1)

\* an int
IntV(n) == [t |-> "int", n |-> n]

\* a float, given in tenths: FloatV(15) is 1.5
FloatV(n) == [t |-> "float", n |-> n]

\* isinstance(v, (int, float, complex))
IsNumber(v) == v.t \in {"int", "float"}

\* not v: None, the empty string, 0 and 0.0 are falsy
Falsy(v) ==
    CASE v.t = "none" -> TRUE
      [] v.t = "str" -> v.s = <<>>
      [] OTHER -> v.n = 0

\* the decimal digits of n >= 0
RECURSIVE Digits(_)
Digits(n) ==
    IF n < 10 THEN <<(<<"0", "1", "2", "3", "4", "5", "6", "7", "8", "9">>)[n + 1]>>
    ELSE Digits(n \div 10) \o Digits(n % 10)

\* |n|
Abs(n) == IF n < 0 THEN 0 - n ELSE n

\* str(v) of a number: sign, digits and, for a float, the fraction
py_str(v) ==
    (IF v.n < 0 THEN <<"-">> ELSE <<>>) \o
    (IF v.t = "int" THEN Digits(Abs(v.n))
     ELSE Digits(Abs(v.n) \div 10) \o <<".">> \o Digits(Abs(v.n) % 10))

\* a prepare that quotes a variable like any other text
prepare_novar(v, names) ==
    IF Falsy(v) THEN NoneV
    ELSE IF v = Str(<<"a">>) THEN v
    ELSE IF IsNumber(v) THEN Str(py_str(v))
    ELSE IF StartsWith(v.s, <<"h", "t", "t", "p">>) THEN Str(<<"<">> \o v.s \o <<">">>)
    ELSE IF names.none THEN Raised
    ELSE IF \E k \in 1..Len(names.list) : names.list[k] = SliceTo(v.s, Find(v.s, ":"))
         THEN v
    ELSE Str(<<"'">> \o v.s \o <<"'">>)

\* prepare_uri_or_value(uri_or_value, prefixes_names), imported as `prepare`;
\* prefixes_names is [none |-> TRUE] for None, else [list |-> the names]
prepare(v, names) ==
    IF Falsy(v) THEN NoneV
    ELSE IF v = Str(<<"a">>) THEN v
    ELSE IF IsNumber(v) THEN Str(py_str(v))
    ELSE IF StartsWith(v.s, <<"?">>) THEN v
    ELSE IF StartsWith(v.s, <<"h", "t", "t", "p">>) THEN Str(<<"<">> \o v.s \o <<">">>)
    ELSE IF names.none THEN Raised
    ELSE IF \E k \in 1..Len(names.list) : names.list[k] = SliceTo(v.s, Find(v.s, ":"))
         THEN v
    ELSE Str(<<"'">> \o v.s \o <<"'">>)

\* prepare_triple(triple, prefixes_names) raises
prepare_triple_raises(triple, names) ==
    \E k \in 1..3 : prepare(triple[k], names).t = "raise"

\* f"{t}": None is formatted as the text None
Format(v) == IF v.t = "none" THEN <<"N", "o", "n", "e">> ELSE v.s

\* prepare_triple(triple, prefixes_names): f"{t1} {t2} {t3} ."
prepare_triple(triple, names) ==
    IF prepare_triple_raises(triple, names) THEN Raised
    ELSE Str(Format(prepare(triple[1], names)) \o <<" ">> \o
             Format(prepare(triple[2], names)) \o <<" ">> \o
             Format(prepare(triple[3], names)) \o <<" ", ".">>)

-----------------------------------------------------------------------------
(* The arguments of the client calls *)

\* None as the `prefixes` argument
NoPrefixes == [kind |-> "None", list |-> <<>>]

\* a registry the caller built from a list of its own
OwnPrefixes(list) == [kind |-> "own", list |-> list]

\* Prefixes(): a registry whose prefix_list is the default list object
DefaultPrefixes == [kind |-> "default", list |-> <<>>]

\* prefixes.prefix_list
ListOf(pfx, dflt) == IF pfx.kind = "default" THEN dflt ELSE pfx.list

\* bool(prefixes): None is falsy, a registry is truthy when __len__ is not 0
Truthy(pfx, dflt) == pfx.kind # "None" /\ Len(ListOf(pfx, dflt)) > 0

\* prefixes.shorts() if prefixes else None
NamesOf(pfx, dflt) ==
    IF Truthy(pfx, dflt)
    THEN [none |-> FALSE, list |-> Prefixes_shorts(ListOf(pfx, dflt))]
    ELSE [none |-> TRUE, list |-> <<>>]

\* a full URI
UriToken == Str(<<"h", "t", "t", "p", ":", "x">>)

\* a literal text
PlainToken == Str(<<"A", "l">>)

\* a compact URI
CompactToken == Str(<<"e", ":", "g">>)

\* triples[i - 1]: the triple at plainAt has a literal object, the others
\* hold full URIs only
TripleAt(tr, i) ==
    IF i = tr.plainAt THEN <<UriToken, UriToken, PlainToken>>
    ELSE <<UriToken, UriToken, UriToken>>

-----------------------------------------------------------------------------
(* schema/sparql.py and the adapters: run *)

\* chunk_size of Sparql.insert
chunk_size == 5000

\* Allegrograph.additional_prefix
additional_prefix ==
    Prefix(<< "f", "r", "a", "n", "z", "O", "p", "t", "i", "o", "n", "_", "d", "e", "f", "a",
              "u", "l", "t", "D", "a", "t", "a", "s", "e", "t", "B", "e", "h", "a", "v", "i", "o", "r" >>,
           <<"f", "r", "a", "n", "z", ":", "r", "d", "f">>)

\* '\n'.join([line.strip() for line in text.split('\n') if line.strip()]):
\* every line is stripped and the blank lines go
StripLines(text_) == SelectSeq(text_, LAMBDA item : ~IsBlank(item))

\* the request Sparql.run posts: form parameter, URL appendix, whether the
\* response is parsed, the PREFIX declarations in front of the text, and the
\* text without its blank lines
Request(op, text_, pfxList, param, appendix, parse) ==
    [ op |-> op, text |-> StripLines(text_), decls |-> Prefixes_shorts(pfxList),
      param |-> param, appendix |-> appendix, parse |-> parse ]

\* Sparql.run(text, prefixes, query_param, url_appendix, parse_response) up
\* to the post: `prefixes or Prefixes()` is the registry declared
Sparql_run(op, text_, pfx, dflt, param, appendix, parse) ==
    [ raise |-> "",
      req |-> Request(op, text_, IF Truthy(pfx, dflt) THEN ListOf(pfx, dflt) ELSE dflt,
                      param, appendix, parse),
      pfx |-> pfx, dflt |-> dflt ]

\* query_type in ['INSERT', 'DELETE', 'CLEAR', 'OTHER']
IsUpdateType(query_type) == query_type \in {"INSERT", "DELETE", "CLEAR", "OTHER"}

\* Fuseki.run(text, prefixes)
Fuseki_run(op, text_, pfx, dflt) ==
    IF IsUpdateType(get_sparql_type(text_))
    THEN Sparql_run(op, text_, pfx, dflt, "update", "", FALSE)
    ELSE Sparql_run(op, text_, pfx, dflt, "query", "", TRUE)

\* GraphDB.run(text, prefixes)
GraphDB_run(op, text_, pfx, dflt) ==
    IF IsUpdateType(get_sparql_type(text_))
    THEN Sparql_run(op, text_, pfx, dflt, "update", "/statements", FALSE)
    ELSE Sparql_run(op, text_, pfx, dflt, "query", "", TRUE)

\* Allegrograph.run(text, prefixes): prefixes.has on None raises
\* AttributeError; `if not Prefixes` tests the class and never holds
Allegrograph_run(op, text_, pfx, dflt) ==
    IF pfx.kind = "None"
    THEN [raise |-> "AttributeError", req |-> Request(op, text_, <<>>, "", "", FALSE),
          pfx |-> pfx, dflt |-> dflt]
    ELSE IF Prefixes_has(ListOf(pfx, dflt), additional_prefix.short)
    THEN Sparql_run(op, text_, pfx, dflt, "query", "", TRUE)
    ELSE LET pfx2 == IF pfx.kind = "own"
                     THEN [pfx EXCEPT !.list = Append(@, additional_prefix)] ELSE pfx
             dflt2 == IF pfx.kind = "default" THEN Append(dflt, additional_prefix) ELSE dflt
         IN  Sparql_run(op, text_, pfx2, dflt2, "query", "", TRUE)

\* self.run(text, prefixes) on a client of class b
Run(b, op, text_, pfx, dflt) ==
    CASE b = "Fuseki" -> Fuseki_run(op, text_, pfx, dflt)
      [] b = "GraphDB" \/ b = "RDF4J" -> GraphDB_run(op, text_, pfx, dflt)
      [] b = "Allegrograph" -> Allegrograph_run(op, text_, pfx, dflt)
      [] OTHER -> Sparql_run(op, text_, pfx, dflt, "query", "", TRUE)

\* a raise_for_status that lets a bad response pass
RaisesForStatus_never(ok) == FALSE

\* response.raise_for_status() raises
RaisesForStatus(ok) == ~ok

-----------------------------------------------------------------------------
(* schema/sparql.py: insert and delete; schema/graph.py: Graph.insert;     *)
(* sparql/allegrograph.py: insert                                          *)

\* the smaller of two numbers
Min(a, b) == IF a <= b THEN a ELSE b

\* a slice that runs one triple into the next chunk
ChunkOf_overlap(n, k) == [lo |-> k * chunk_size + 1, hi |-> Min(n, k * chunk_size + chunk_size + 1)]

\* chunked_triples[k] = triples[k * chunk_size : k * chunk_size + chunk_size],
\* as the 1-based positions lo..hi of its triples in the list
ChunkOf(n, k) == [lo |-> k * chunk_size + 1, hi |-> Min(n, k * chunk_size + chunk_size)]

\* range(0, len(triples), chunk_size) still holds the index of chunk k
HasChunk(n, k) == k * chunk_size < n

\* the distinct triples among positions lo..hi of the list
DistinctIn(tr, lo, hi) ==
    {TripleAt(tr, i) : i \in {j \in {lo, lo + 1, tr.plainAt} : lo <= j /\ j <= hi}}

\* the join of prepare_triple over positions lo..hi raises TypeError
RenderRaises(tr, lo, hi, names) ==
    \E t \in DistinctIn(tr, lo, hi) : prepare_triple_raises(t, names)

\* "GRAPH " + prepare(graph_uri, names) + " {" if graph_uri else "" raises
GraphOpenRaises(g, names) == g.t # "none" /\ g.s # <<>> /\ prepare(g, names).t = "raise"

\* the text Sparql.insert builds
InsertText == <<"blank", "comment", "INSERT">>

\* the text Sparql.delete builds
DeleteText == <<"blank", "comment", "DELETE">>

\* a request as sent: what it carries and how the store answered
Sent(req, lo, hi, ok) ==
    [ op |-> req.op, text |-> req.text, decls |-> req.decls, param |-> req.param,
      appendix |-> req.appendix, parse |-> req.parse, lo |-> lo, hi |-> hi, ok |-> ok ]

\* Sparql.delete(triples, graph_uri, prefixes) up to the post
Sparql_delete(b, tr, g, pfx, dflt) ==
    IF RenderRaises(tr, 1, tr.n, NamesOf(pfx, dflt)) \/ GraphOpenRaises(g, NamesOf(pfx, dflt))
    THEN [raise |-> "TypeError", req |-> Request("DELETE WHERE", DeleteText, <<>>, "", "", FALSE),
          pfx |-> pfx, dflt |-> dflt]
    ELSE Run(b, "DELETE WHERE", DeleteText, pfx, dflt)

\* the client's insert takes (triples, graph_uri, prefixes): Allegrograph.insert
\* takes (triples, graph_uri) only
AcceptsPrefixes(b) == b # "Allegrograph"

\* the classes of client
Backends == {"Sparql", "Fuseki", "GraphDB", "Allegrograph"}

\* the lengths of the lists handed over
TripleCounts ==
    {k * chunk_size + d : k \in 0..(MaxChunks - 1), d \in {0, 1, 2000, chunk_size - 1}}
        \cup {MaxChunks * chunk_size}

\* the lists handed over
TripleLists ==
    { t \in [n : TripleCounts, plainAt : {0, 1, chunk_size + 1}] : t.plainAt <= t.n }

\* the `prefixes` arguments
PrefixArgs == {NoPrefixes, DefaultPrefixes, OwnPrefixes(<<PrefixEx>>)}

InitInsert ==
    /\ PrefixIdle
    /\ RunIdle
    /\ DumpIdle
    /\ PrepIdle
    /\ ModelIdle
    /\ backend \in Backends
    /\ via \in {"client", "Graph"}
    /\ prefixes \in PrefixArgs
    /\ backend = "Allegrograph" /\ via = "client" => prefixes = NoPrefixes
    /\ defaults = <<>>
    /\ pc = "idle"
    /\ error = ""
    /\ requests = <<>>
    /\ store = <<>>
    /\ triples \in TripleLists
    /\ graph_uri \in {NoneV, UriToken, CompactToken}
    /\ chunkIdx = 0

\* the call ends with exception exc
Raise(exc) ==
    /\ pc' = "raised"
    /\ error' = exc
    /\ UNCHANGED <<backend, prefixes, defaults, requests, store, chunkIdx>>

\* Sparql.insert up to its loop: the graph part of the query is prepared
EnterInsert ==
    IF GraphOpenRaises(graph_uri, NamesOf(prefixes, defaults))
    THEN Raise("TypeError")
    ELSE /\ pc' = "insert"
         /\ chunkIdx' = 0
         /\ UNCHANGED <<backend, prefixes, defaults, error, requests, store>>

\* Allegrograph.insert(triples, graph_uri): self.delete(triples, graph_uri),
\* then super().insert(triples, graph_uri)
AllegrographInsert ==
    LET r == Sparql_delete(backend, triples, graph_uri, NoPrefixes, defaults)
    IN  IF r.raise # ""
        THEN Raise(r.raise)
        ELSE \E ok \in BOOLEAN :
                /\ requests' = Append(requests, Sent(r.req, 1, triples.n, ok))
                /\ defaults' = r.dflt
                /\ prefixes' = NoPrefixes
                /\ IF RaisesForStatus(ok)
                   THEN pc' = "raised" /\ error' = "HTTPError" /\ UNCHANGED chunkIdx
                   ELSE IF GraphOpenRaises(graph_uri, NamesOf(NoPrefixes, r.dflt))
                   THEN pc' = "raised" /\ error' = "TypeError" /\ UNCHANGED chunkIdx
                   ELSE pc' = "insert" /\ error' = "" /\ chunkIdx' = 0
                /\ UNCHANGED <<backend, store>>

\* client.insert(triples, graph_uri, prefixes)
ClientInsert ==
    /\ pc = "idle"
    /\ via = "client"
    /\ IF backend = "Allegrograph" THEN AllegrographInsert ELSE EnterInsert
    /\ UNCHANGED <<prefixVars, via, triples, graph_uri, runVars, dumpVars, prepVars, modelVars>>

\* Graph.insert(triples, prefixes): self.sparql.insert(triples, self.uri,
\* prefixes) unless the list is empty
GraphInsert ==
    /\ pc = "idle"
    /\ via = "Graph"
    /\ IF triples.n = 0
       THEN /\ pc' = "done"
            /\ UNCHANGED <<backend, prefixes, defaults, error, requests, store, chunkIdx>>
       ELSE IF ~AcceptsPrefixes(backend)
       THEN Raise("TypeError")
       ELSE EnterInsert
    /\ UNCHANGED <<prefixVars, via, triples, graph_uri, runVars, dumpVars, prepVars, modelVars>>

\* one turn of the loop of Sparql.insert: the chunk is rendered and posted
SendChunk ==
    /\ pc = "insert"
    /\ HasChunk(triples.n, chunkIdx)
    /\ LET c == ChunkOf(triples.n, chunkIdx)
           r == Run(backend, "INSERT DATA", InsertText, prefixes, defaults)
       IN  IF RenderRaises(triples, c.lo, c.hi, NamesOf(prefixes, defaults))
           THEN Raise("TypeError")
           ELSE IF r.raise # ""
           THEN Raise(r.raise)
           ELSE \E ok \in BOOLEAN :
                   /\ requests' = Append(requests, Sent(r.req, c.lo, c.hi, ok))
                   /\ prefixes' = r.pfx
                   /\ defaults' = r.dflt
                   /\ store' = IF ok THEN Append(store, c) ELSE store
                   /\ IF RaisesForStatus(ok)
                      THEN pc' = "raised" /\ error' = "HTTPError" /\ UNCHANGED chunkIdx
                      ELSE chunkIdx' = chunkIdx + 1 /\ UNCHANGED <<pc, error>>
                   /\ UNCHANGED backend
    /\ UNCHANGED <<prefixVars, via, triples, graph_uri, runVars, dumpVars, prepVars, modelVars>>

\* the loop of Sparql.insert is over: insert returns
InsertReturn ==
    /\ pc = "insert"
    /\ ~HasChunk(triples.n, chunkIdx)
    /\ pc' = "done"
    /\ UNCHANGED <<backend, prefixes, defaults, error, requests, store, chunkIdx>>
    /\ UNCHANGED <<prefixVars, via, triples, graph_uri, runVars, dumpVars, prepVars, modelVars>>

NextInsert ==
    \/ ClientInsert
    \/ GraphInsert
    \/ SendChunk
    \/ InsertReturn

SpecInsert == InitInsert /\ [][NextInsert]_vars

-----------------------------------------------------------------------------
(* C4, C5, C9: chunked insert *)

\* the triples request r carries
SizeOf(r) == r.hi - r.lo + 1

\* ceil(n / chunk_size)
CeilChunks(n) == (n + chunk_size - 1) \div chunk_size

\* C4: an insert of n triples that returns has issued exactly
\* ceil(n / 5000) requests, every one with at most 5000 triples, all but the
\* last with exactly 5000, and the requests in order carry the list from its
\* first triple to its last. Sparql.insert ends otherwise only with the HTTP
\* error of its last request, or with the TypeError of rendering a literal
\* or a compact URI without a list of known names.
C4_ChunkedInsert ==
    /\ pc = "raised" /\ backend # "Allegrograph" =>
        \/ error = "HTTPError" /\ Len(requests) > 0 /\ ~requests[Len(requests)].ok
        \/ /\ error = "TypeError"
           /\ NamesOf(prefixes, defaults).none
           /\ triples.plainAt > 0 \/ graph_uri = CompactToken
    /\ pc = "done" =>
        /\ Len(requests) = CeilChunks(triples.n)
        /\ \A k \in 1..Len(requests) :
              /\ requests[k].op = "INSERT DATA"
              /\ requests[k].ok
              /\ SizeOf(requests[k]) >= 1
              /\ SizeOf(requests[k]) <= 5000
              /\ k < Len(requests) => SizeOf(requests[k]) = 5000
              /\ requests[k].lo = IF k = 1 THEN 1 ELSE requests[k - 1].hi + 1
        /\ Len(requests) > 0 => requests[Len(requests)].hi = triples.n

\* C4 witness: 12,000 triples were inserted by 3 requests of 5000, 5000, 2000
C4_Witness ==
    /\ pc = "done"
    /\ triples.n = 12000
    /\ Len(requests) = 3
    /\ [k \in 1..3 |-> SizeOf(requests[k])] = <<5000, 5000, 2000>>

\* C5: a request of a chunked insert that failed is the last request sent,
\* the call has ended with the HTTP error, and the store holds exactly the
\* chunks of the requests before it.
C5_FailurePropagates ==
    \A k \in 1..Len(requests) :
        requests[k].op = "INSERT DATA" /\ ~requests[k].ok =>
            /\ k = Len(requests)
            /\ pc = "raised"
            /\ error = "HTTPError"
            /\ \A j \in 1..(k - 1) : requests[j].ok
            /\ store = [j \in 1..(k - 1) |-> [lo |-> requests[j].lo, hi |-> requests[j].hi]]

\* C5 witness: the second of three chunks failed, the first is committed and
\* the third was never sent
C5_Witness ==
    /\ Len(requests) = 2
    /\ requests[1].ok
    /\ ~requests[2].ok
    /\ HasChunk(triples.n, 2)
    /\ pc = "raised"
    /\ store = <<ChunkOf(triples.n, 0)>>

\* the triples and the graph URI are rendered without a list of known names
RendersWithoutNames ==
    triples.plainAt = 0 /\ graph_uri \in {NoneV, UriToken}

\* C9: an insert of triples through an Allegrograph client, called on the
\* client or through Graph.insert, whose requests the store all accepts,
\* completes without error, and its requests are one DELETE WHERE followed by
\* the INSERT DATA requests.
C9_AllegrographDeleteThenInsert ==
    /\ backend = "Allegrograph"
    /\ triples.n > 0
    /\ RendersWithoutNames
    /\ pc \in {"done", "raised"}
    /\ \A k \in 1..Len(requests) : requests[k].ok
    => /\ pc = "done"
       /\ Len(requests) >= 2
       /\ requests[1].op = "DELETE WHERE"
       /\ \A k \in 2..Len(requests) : requests[k].op = "INSERT DATA"

-----------------------------------------------------------------------------
(* run on a client: one text, handed to run up to MaxRuns times with the   *)
(* same `prefixes` argument                                                *)

\* what may stand in front of the keyword
HeaderItems == {"blank", "comment", "PREFIX", "prefix"}

\* the item after the header
KeywordItems ==
    {"SELECT", "select", "CONSTRUCT", "construct", "INSERT", "delete", "CLEAR", "ASK", "{"}

\* the request texts
Texts ==
    UNION {{h \o <<k>> : h \in [1..m -> HeaderItems], k \in KeywordItems} : m \in 0..MaxHeader}

\* the `prefixes` arguments of run
RunPrefixArgs ==
    { NoPrefixes, DefaultPrefixes, OwnPrefixes(<<PrefixEx>>),
      OwnPrefixes(<<additional_prefix>>), OwnPrefixes(<<PrefixEx, additional_prefix>>) }

\* Sparql.__init__(self, url, username, password, name=None) takes k arguments
Sparql_init_accepts(k) == k \in 3..4

\* Fuseki.__init__(self, url, username, password) takes k arguments
Fuseki_init_accepts(k) == k = 3

\* GraphDB.__init__(self, url, username, password) takes k arguments
GraphDB_init_accepts(k) == k = 3

\* Allegrograph.__init__(self, url, username, password, name=None) takes k
\* arguments
Allegrograph_init_accepts(k) == k \in 3..4

\* the arguments RDF4J.__init__ hands to GraphDB.__init__: url, username,
\* password, name
RDF4J_super_args == 4

\* RDF4J.__init__(self, url, username, password, name=None) takes k
\* arguments and ends without error
RDF4J_init_accepts(k) == k \in 3..4 /\ GraphDB_init_accepts(RDF4J_super_args)

\* cls(k arguments) returns a client
Constructs(cls, k) ==
    CASE cls = "Fuseki" -> Fuseki_init_accepts(k)
      [] cls = "GraphDB" -> GraphDB_init_accepts(k)
      [] cls = "Allegrograph" -> Allegrograph_init_accepts(k)
      [] cls = "RDF4J" -> RDF4J_init_accepts(k)
      [] OTHER -> Sparql_init_accepts(k)

\* self.technology_name after __init__: the base class sets none
technology_name(cls) == IF cls = "Sparql" THEN "" ELSE cls

\* the classes a run client is built from
RunBackends == Backends \cup {"RDF4J"}

InitRun ==
    /\ PrefixIdle
    /\ InsertIdle
    /\ DumpIdle
    /\ PrepIdle
    /\ ModelIdle
    /\ backend \in RunBackends
    /\ prefixes \in RunPrefixArgs
    /\ defaults = <<>>
    /\ pc = "new"
    /\ error = ""
    /\ requests = <<>>
    /\ store = <<>>
    /\ text \in Texts

\* the client is built from (url, username, password) or from (url, username,
\* password, name): a TypeError of __init__ leaves no client
NewClient ==
    /\ pc = "new"
    /\ \E k \in 3..4 :
          IF Constructs(backend, k)
          THEN pc' = "idle" /\ error' = ""
          ELSE pc' = "unbuilt" /\ error' = "TypeError"
    /\ UNCHANGED <<prefixVars, backend, prefixes, defaults, requests, store, insertVars, runVars, dumpVars, prepVars, modelVars>>

\* client.run(text, prefixes)
ClientRun ==
    /\ pc \in {"idle", "done", "raised"}
    /\ Len(requests) < MaxRuns
    /\ LET r == Run(backend, "run", text, prefixes, defaults)
       IN  IF r.raise # ""
           THEN /\ pc' = "raised"
                /\ error' = r.raise
                /\ UNCHANGED <<prefixes, defaults, requests>>
           ELSE \E ok \in BOOLEAN :
                   /\ requests' = Append(requests, Sent(r.req, 0, 0, ok))
                   /\ prefixes' = r.pfx
                   /\ defaults' = r.dflt
                   /\ pc' = IF RaisesForStatus(ok) THEN "raised" ELSE "done"
                   /\ error' = IF RaisesForStatus(ok) THEN "HTTPError" ELSE ""
    /\ UNCHANGED <<prefixVars, backend, store, insertVars, runVars, dumpVars, prepVars, modelVars>>

NextRun ==
    \/ NewClient
    \/ ClientRun

SpecRun == InitRun /\ [][NextRun]_vars

-----------------------------------------------------------------------------
(* C8, C10: dispatch of run *)

\* the first item of a text that is neither a blank line, a comment nor a
\* PREFIX declaration, in upper case
RECURSIVE FirstKeyword(_)
FirstKeyword(q) ==
    IF q = <<>> THEN "nonword"
    ELSE IF Head(q) \in HeaderItems THEN FirstKeyword(Tail(q))
    ELSE Upper(Head(q))

\* how often short name n is declared in request r
Declared(r, n) == Cardinality({k \in 1..Len(r.decls) : r.decls[k] = n})

\* C8: on Fuseki and GraphDB a text whose first keyword after blank lines,
\* comments and PREFIX declarations, in any order and letter case, is SELECT
\* or CONSTRUCT is sent as `query` and its response parsed; every other text
\* is sent as `update` (on GraphDB to /statements) and its response is not
\* parsed.
C8_QueryUpdateDispatch ==
    \A k \in 1..Len(requests) :
        backend \in {"Fuseki", "GraphDB"} =>
            IF FirstKeyword(requests[k].text) \in {"SELECT", "CONSTRUCT"}
            THEN /\ requests[k].param = "query"
                 /\ requests[k].appendix = ""
                 /\ requests[k].parse
            ELSE /\ requests[k].param = "update"
                 /\ requests[k].appendix = IF backend = "GraphDB" THEN "/statements" ELSE ""
                 /\ ~requests[k].parse

\* C10: every call of Allegrograph.run sends a request, whatever the
\* `prefixes` argument, every request declares franzOption_defaultDatasetBehavior
\* exactly once, and the registry handed over holds it at most once.
C10_FranzPrefixOnce ==
    backend = "Allegrograph" =>
        /\ pc = "raised" => error = "HTTPError"
        /\ \A k \in 1..Len(requests) : Declared(requests[k], additional_prefix.short) = 1
        /\ Cardinality({k \in 1..Len(ListOf(prefixes, defaults)) :
               ListOf(prefixes, defaults)[k].short = additional_prefix.short}) <= 1

\* C11: an RDF4J client is built from (url, username, password[, name]) and
\* every run on it sends the request a GraphDB client sends for the same text
\* and prefixes; only technology_name differs, which is "RDF4J".
C11_RDF4JLikeGraphDB ==
    backend = "RDF4J" =>
        /\ pc # "unbuilt"
        /\ technology_name(backend) = "RDF4J"
        /\ \A k \in 1..Len(requests) :
              LET g == GraphDB_run("run", text, prefixes, defaults).req
              IN  /\ requests[k].param = g.param
                  /\ requests[k].appendix = g.appendix
                  /\ requests[k].parse = g.parse
                  /\ requests[k].text = g.text

-----------------------------------------------------------------------------
(* schema/graph.py: Graph.dump_dict; sparql/fuseki.py: Fuseki.dump *)

\* step of Graph.dump_dict
step == 5000

\* step of Fuseki.dump
fuseki_step == 5000

\* a loop that ends on the first page that is not full
MorePages_full(n) == n >= step

\* len(local_result) > 0
MorePages(n) == n > 0

\* the k-th answer of a scripted backend: nothing once the script is over
ScriptedPage(sc, k) == IF k <= Len(sc) THEN sc[k] ELSE 0

\* the query of Graph.dump_dict ends in LIMIT {step}
DumpDictLimit == [none |-> FALSE, n |-> step]

\* the queries of Fuseki.dump hold no LIMIT clause
FusekiDumpLimit == [none |-> TRUE, n |-> 0]

\* the rows a faithful store of n triples returns for OFFSET off under the
\* query's LIMIT, as positions lo..hi of the graph's triples (none: lo > hi)
Answer(n, off, limit) ==
    [lo |-> off + 1, hi |-> IF limit.none THEN n ELSE Min(n, off + limit.n)]

\* the text of the dump queries
DumpText == <<"blank", "comment", "SELECT">>

\* graphs = [''] + [g['g'] for g in graphs]: the graphs of the store with a
\* triple, after the default graph
GraphsOf(sz) == [g \in 1..Len(sz) |-> g]

\* the rows a page may hold
PageSizes == {0, 1, step - 1, step}

\* the triples a graph may hold
GraphSizes == {0, 1, fuseki_step, fuseki_step + 1}

InitDump ==
    /\ PrepIdle
    /\ ModelIdle
    /\ PrefixIdle
    /\ ClientIdle
    /\ InsertIdle
    /\ RunIdle
    /\ dumpOp \in {"Graph.dump_dict", "Fuseki.dump"}
    /\ IF dumpOp = "Graph.dump_dict"
       THEN /\ script \in UNION {[1..m -> PageSizes] : m \in 0..MaxPages}
            /\ sizes = <<>>
       ELSE /\ script = <<>>
            /\ sizes \in UNION {{<<d>> \o named : d \in GraphSizes,
                                    named \in [1..m -> GraphSizes \ {0}]} : m \in 0..MaxGraphs}
    /\ gi = 0
    /\ offset = 0
    /\ fetches = <<>>
    /\ result = <<>>
    /\ dpc = "idle"

\* Graph.dump_dict up to its loop
DumpDictStart ==
    /\ dpc = "idle"
    /\ dumpOp = "Graph.dump_dict"
    /\ dpc' = "loop"
    /\ offset' = 0
    /\ result' = <<>>
    /\ UNCHANGED <<dumpOp, script, sizes, gi, fetches>>
    /\ UNCHANGED <<prefixVars, clientVars, insertVars, runVars, prepVars, modelVars>>

\* one turn of the loop of Graph.dump_dict against the scripted backend
DumpDictFetch ==
    /\ dpc = "loop"
    /\ dumpOp = "Graph.dump_dict"
    /\ LET rows == ScriptedPage(script, Len(fetches) + 1)
       IN  /\ fetches' = Append(fetches, [graph |-> 0, offset |-> offset, rows |-> rows])
           /\ IF MorePages(rows)
              THEN /\ result' = Append(result, [graph |-> 0, offset |-> offset, rows |-> rows])
                   /\ offset' = offset + step
                   /\ UNCHANGED dpc
              ELSE /\ dpc' = "done"
                   /\ UNCHANGED <<result, offset>>
    /\ UNCHANGED <<dumpOp, script, sizes, gi>>
    /\ UNCHANGED <<prefixVars, clientVars, insertVars, runVars, prepVars, modelVars>>

\* Fuseki.dump up to its loops: the graphs are listed
FusekiDumpStart ==
    /\ dpc = "idle"
    /\ dumpOp = "Fuseki.dump"
    /\ IF Fuseki_run("dump", DumpText, NoPrefixes, defaults).req.parse
       THEN dpc' = "loop" /\ gi' = 1
       ELSE dpc' = "raised" /\ gi' = 0
    /\ offset' = 0
    /\ result' = <<>>
    /\ UNCHANGED <<dumpOp, script, sizes, fetches>>
    /\ UNCHANGED <<prefixVars, clientVars, insertVars, runVars, prepVars, modelVars>>

\* one turn of the inner loop of Fuseki.dump against the faithful store; on
\* an empty page the rows of the graph are complete and the next graph starts
FusekiDumpFetch ==
    /\ dpc = "loop"
    /\ dumpOp = "Fuseki.dump"
    /\ gi <= Len(GraphsOf(sizes))
    /\ LET a == Answer(sizes[GraphsOf(sizes)[gi]], offset, FusekiDumpLimit)
           rows == IF a.hi >= a.lo THEN a.hi - a.lo + 1 ELSE 0
       IN  /\ fetches' = Append(fetches, [graph |-> gi, offset |-> offset, rows |-> rows])
           /\ IF rows > 0
              THEN /\ result' = Append(result, [graph |-> gi, offset |-> offset, rows |-> rows])
                   /\ offset' = offset + fuseki_step
                   /\ UNCHANGED gi
              ELSE /\ gi' = gi + 1
                   /\ offset' = 0
                   /\ UNCHANGED result
    /\ UNCHANGED <<dumpOp, script, sizes, dpc>>
    /\ UNCHANGED <<prefixVars, clientVars, insertVars, runVars, prepVars, modelVars>>

\* every graph is read: Fuseki.dump returns the lines
FusekiDumpReturn ==
    /\ dpc = "loop"
    /\ dumpOp = "Fuseki.dump"
    /\ gi > Len(GraphsOf(sizes))
    /\ dpc' = "done"
    /\ UNCHANGED <<dumpOp, script, sizes, gi, offset, fetches, result>>
    /\ UNCHANGED <<prefixVars, clientVars, insertVars, runVars, prepVars, modelVars>>

NextDump ==
    \/ DumpDictStart
    \/ DumpDictFetch
    \/ FusekiDumpStart
    \/ FusekiDumpFetch
    \/ FusekiDumpReturn

SpecDump == InitDump /\ [][NextDump]_vars

-----------------------------------------------------------------------------
(* C6, C7: pagination *)

\* the position of the first empty page of a script, the one after its end
\* when it has none
RECURSIVE FirstEmpty(_)
FirstEmpty(sc) == IF sc = <<>> \/ Head(sc) = 0 THEN 1 ELSE 1 + FirstEmpty(Tail(sc))

\* the rows of a sequence of pages
RECURSIVE TotalRows(_)
TotalRows(pages) == IF pages = <<>> THEN 0 ELSE Head(pages).rows + TotalRows(Tail(pages))

\* C6: a Graph.dump_dict that has returned queried offsets 0, 5000, 10000, ...
\* in this order, each once, up to and including the first page without rows,
\* and returns the pages before that one, short ones included, in request
\* order.
C6_DumpDictPagination ==
    dumpOp = "Graph.dump_dict" /\ dpc = "done" =>
        /\ Len(fetches) = FirstEmpty(script)
        /\ \A k \in 1..Len(fetches) : fetches[k].offset = (k - 1) * 5000
        /\ Len(result) = FirstEmpty(script) - 1
        /\ \A k \in 1..Len(result) :
              result[k].offset = (k - 1) * 5000 /\ result[k].rows = script[k]

\* C6 witness: pages of 5000, 5000 and 0 rows gave 10000 rows from offsets
\* 0 and 5000
C6_Witness ==
    /\ dumpOp = "Graph.dump_dict"
    /\ dpc = "done"
    /\ script = <<5000, 5000, 0>>
    /\ TotalRows(result) = 10000
    /\ {result[k].offset : k \in 1..Len(result)} = {0, 5000}

\* how often triple t of graph g is among the rows gathered
TimesRead(g, t) ==
    Cardinality({k \in 1..Len(result) :
        result[k].graph = g /\ result[k].offset < t /\ t <= result[k].offset + result[k].rows})

\* C7: a Fuseki.dump that has returned has read every graph in batches of at
\* most 5000 rows and outputs each triple of each graph exactly once.
C7_FusekiDumpExactlyOnce ==
    dumpOp = "Fuseki.dump" /\ dpc = "done" =>
        /\ \A k \in 1..Len(fetches) : fetches[k].rows <= 5000
        /\ \A g \in 1..Len(sizes) : \A t \in 1..sizes[g] : TimesRead(g, t) = 1

-----------------------------------------------------------------------------
(* tools/uri.py, tools/triple.py: prepare on one token, then on its own    *)
(* result; prepare_triple on a triple with the token as object             *)

\* the characters of the tokens
PrepAlphabet == {"e", ":", "?", "a", "5"}

\* the tokens handed over: texts, None and numbers
PrepArgs ==
    {Str(w) : w \in UNION {[1..m -> PrepAlphabet] : m \in 0..MaxTok}}
        \cup {UriToken, PlainToken, NoneV}
        \cup {IntV(n) : n \in {0, 5, 12, 0 - 3}}
        \cup {FloatV(n) : n \in {0, 15, 0 - 20}}

\* the prefixes_names handed over: None, no name, registered short names
NamesArgs ==
    { [none |-> TRUE, list |-> <<>>], [none |-> FALSE, list |-> <<>>],
      [none |-> FALSE, list |-> <<<<"e">>>>], [none |-> FALSE, list |-> <<<<"e">>, <<"A">>>>] }

\* most calls of prepare made in a row, each on the result of the one before
PrepCalls == 2

InitPrepare ==
    /\ ModelIdle
    /\ PrefixIdle
    /\ ClientIdle
    /\ InsertIdle
    /\ RunIdle
    /\ DumpIdle
    /\ pArg \in PrepArgs
    /\ pNames \in NamesArgs
    /\ pOuts = <<>>
    /\ pLine = Unset

\* prepare(pArg, pNames), then prepare of what it returned
CallPrepare ==
    /\ Len(pOuts) < PrepCalls
    /\ pOuts # <<>> => pOuts[Len(pOuts)].t # "raise"
    /\ pOuts' = Append(pOuts, prepare(IF pOuts = <<>> THEN pArg ELSE pOuts[Len(pOuts)], pNames))
    /\ UNCHANGED <<pArg, pNames, pLine>>
    /\ UNCHANGED <<prefixVars, clientVars, insertVars, runVars, dumpVars, modelVars>>

\* prepare_triple((subject, predicate, pArg), pNames)
CallPrepareTriple ==
    /\ pLine = Unset
    /\ pLine' = prepare_triple(<<UriToken, UriToken, pArg>>, pNames)
    /\ UNCHANGED <<pArg, pNames, pOuts>>
    /\ UNCHANGED <<prefixVars, clientVars, insertVars, runVars, dumpVars, modelVars>>

NextPrepare ==
    \/ CallPrepare
    \/ CallPrepareTriple

SpecPrepare == InitPrepare /\ [][NextPrepare]_vars

-----------------------------------------------------------------------------
(* C12..C14: prepare *)

\* w holds ':' and the text before its first ':' is one of the known names
HasKnownPrefix(w, names) ==
    /\ ~names.none
    /\ \E k \in 1..Len(w) :
          /\ w[k] = ":"
          /\ \A j \in 1..(k - 1) : w[j] # ":"
          /\ \E i \in 1..Len(names.list) : names.list[i] = Take(w, k - 1)

\* v is a text that is neither empty, nor "a", nor a variable, nor a full URI
IsPlainOrCompact(v) ==
    /\ v.t = "str"
    /\ v.s # <<>>
    /\ v.s # <<"a">>
    /\ ~StartsWith(v.s, <<"?">>)
    /\ ~StartsWith(v.s, <<"h", "t", "t", "p">>)

\* C12: prepare returns a text token unchanged only when it holds ':' and
\* the text before its first ':' is a known short name; every other text
\* that is not empty, not "a", not a variable and not a full URI comes back
\* in single quotes, also when the list of names is empty or absent.
C12_CompactOrQuoted ==
    Len(pOuts) >= 1 /\ IsPlainOrCompact(pArg) =>
        pOuts[1] = IF HasKnownPrefix(pArg.s, pNames) THEN pArg
                   ELSE Str(<<"'">> \o pArg.s \o <<"'">>)

\* C13: prepare renders every number, 0 and 0.0 and negative ones included,
\* as its decimal text without quotes, and a triple with a numeric object is
\* rendered with that text in object position.
C13_NumbersUnquoted ==
    IsNumber(pArg) =>
        /\ Len(pOuts) >= 1 => pOuts[1] = Str(py_str(pArg))
        /\ pLine # Unset =>
              pLine = Str(<<"<">> \o UriToken.s \o <<">", " ", "<">> \o UriToken.s \o <<">", " ">>
                          \o py_str(pArg) \o <<" ", ".">>)

\* C14: prepare is idempotent on variables and on numbers, for every list of
\* known names: the second call returns what the first returned.
C14_IdempotentOnVariablesAndNumbers ==
    /\ Len(pOuts) = 2
    /\ IsNumber(pArg) \/ (pArg.t = "str" /\ StartsWith(pArg.s, <<"?">>))
    => pOuts[2] = pOuts[1]

\* C14, amended: prepare is idempotent on variables, for every list of known
\* names and without one: both calls return the variable itself.
C14_IdempotentOnVariables ==
    Len(pOuts) = 2 /\ pArg.t = "str" /\ StartsWith(pArg.s, <<"?">>)
        => pOuts[1] = pArg /\ pOuts[2] = pOuts[1]

\* C14 witness: a variable went through prepare twice, without a list of
\* names, and came back both times
C14_Witness ==
    /\ pArg = Str(<<"?", "e">>)
    /\ pNames.none
    /\ pOuts = <<pArg, pArg>>

-----------------------------------------------------------------------------
(* schema/resource.py, schema/property.py, schema/model.py. A URI is a     *)
(* sequence of segments: a namespace, ":" and a local name. None as a text *)
(* is written "None". A Resource carries the get_classes call that built   *)
(* it (gen) and its place in that call's list (idx), 0 for a Resource      *)
(* built elsewhere: two Resources of a list are one object exactly when    *)
(* they are equal.                                                         *)

\* x or None
OrNone(x) == IF x = "" THEN "None" ELSE x

\* Resource(uri_or_value, label, comment, class_uri), an entity
Resource(uri, label, comment, class_uri) ==
    [ gen |-> 0, idx |-> 0, resource_type |-> "entity", uri |-> uri, label |-> OrNone(label),
      comment |-> OrNone(comment), class_uri |-> OrNone(class_uri) ]

\* no Resource: None
NoResource ==
    [ gen |-> 0, idx |-> 0, resource_type |-> "None", uri |-> <<"None">>, label |-> "None",
      comment |-> "None", class_uri |-> "None" ]

\* Property(uri, label, comment, domain, range, card_of, order, min_count,
\* max_count) with every argument given: the counts and the order are
\* numbers or None
PropertyOf(uri, label, comment, domain, range, card_of, order, min_count, max_count) ==
    [ uri |-> uri, label |-> OrNone(label), comment |-> OrNone(comment),
      domain |-> domain, range |-> range, card_of |-> card_of, order |-> order,
      min_count |-> min_count, max_count |-> max_count ]

\* Property(uri, label, "", domain, range, card_of): order and max_count
\* default to None, min_count to 0
Property(uri, label, domain, range, card_of) ==
    PropertyOf(uri, label, "", domain, range, card_of, NoneV, IntV(0), NoneV)

\* Property.is_mandatory(): self.min_count != 0
is_mandatory(q) == q.min_count # IntV(0)

\* Prefix("xsd", "http://www.w3.org/2001/XMLSchema#")
PrefixXsd == Prefix(<<"xsd">>, <<"http://www.w3.org/2001/XMLSchema#">>)

\* the arguments of the Resource calls of get_value_classes, in order:
\* namespace, local name, label, comment
ValueClassArgs ==
    << <<"xsd", "string", "String", "">>, <<"xsd", "integer", "Integer", "">>,
       <<"xsd", "decimal", "Decimal", "">>, <<"xsd", "float", "Float", "">>,
       <<"xsd", "double", "Double", "">>, <<"xsd", "boolean", "Boolean", "">>,
       <<"xsd", "dateTime", "dateTime", "">>, <<"xsd", "date", "Date", "">>,
       <<"xsd", "time", "Time", "">>, <<"xsd", "gYear", "G Year", "">>,
       <<"xsd", "gMonth", "G Month", "">>, <<"xsd", "gDay", "G Day", "">>,
       <<"xsd", "gYearMonth", "G Year Month", "">>,
       <<"xsd", "gMonthDay", "G Month Day", "">>,
       <<"xsd", "duration", "Duration", "">>,
       <<"xsd", "dayTimeDuration", "Day Time Duration", "">>,
       <<"xsd", "yearMonthDuration", "Year Month Duration", "">>,
       <<"xsd", "hexBinary", "Hexadecimal Binary", "">>,
       <<"xsd", "base64Binary", "Base64 Binary", "">>,
       <<"xsd", "anyURI", "", "Any URI">>, <<"xsd", "language", "Language", "">>,
       <<"xsd", "langString", "Language String", "">>,
       <<"rdf", "HTML", "HTML", "">> >>

\* Model.get_value_classes()
get_value_classes ==
    [ k \in 1..Len(ValueClassArgs) |->
        Resource(<<ValueClassArgs[k][1], ":", ValueClassArgs[k][2]>>,
                 ValueClassArgs[k][3], ValueClassArgs[k][4], "rdfs:Datatype") ]

\* the URIs of the store, each written as its namespace and its local name:
\* the strings of these sections are sequences of such parts, and the
\* registries handed to a model hold namespaces that are one part, so that
\* `long in uri` and str.replace act on whole parts
PersonLong == <<"http://ex.org/", "Person">>
AgeLong == <<"http://ex.org/", "age">>
XsdIntegerLong == <<"http://www.w3.org/2001/XMLSchema#", "integer">>

\* ex: <http://ex.org/>, the namespace of the classes and properties of the
\* store
PrefixExOrg == Prefix(<<"ex">>, <<"http://ex.org/">>)

\* a binding of a JSON row
Binding(type, value) == [type |-> type, value |-> value]

\* the bindings the store returns for the query of get_classes: one row for
\* every class with an instance
ClassBindings(f) ==
    IF "person" \in f
    THEN << [uri |-> Binding("uri", PersonLong), label |-> Binding("literal", <<>>)] >>
    ELSE <<>>

\* the bindings the store returns for the query of get_properties: one row
\* for the integer-valued property, with DATATYPE(?o) as its range
PropertyBindings(f) ==
    IF "age" \in f
    THEN << [ domain_class_uri |-> IF "person" \in f THEN Binding("uri", PersonLong)
                                   ELSE Binding("literal", <<>>),
              uri |-> Binding("uri", AgeLong),
              label |-> Binding("literal", <<>>),
              range_class_uri |-> Binding("uri", XsdIntegerLong) ] >>
    ELSE <<>>

\* parse_sparql_json_response: a value of type uri is shortened with the
\* registry of the run
ParseValue(b, list) == IF b.type = "uri" THEN Prefixes_shorten(list, b.value) ELSE b.value

\* the text of a label column: '' when unbound
LabelText(v) == IF v = <<>> THEN "" ELSE "label"

\* Model.find_class(class_uri) on the snapshot cls: the first class of that
\* URI, a new Resource(class_uri) when there is none
find_class(cls, class_uri) ==
    IF \E k \in 1..Len(cls) : cls[k].uri = class_uri
    THEN cls[CHOOSE k \in 1..Len(cls) :
                 cls[k].uri = class_uri /\ \A j \in 1..(k - 1) : cls[j].uri # class_uri]
    ELSE Resource(class_uri, "", "", "")

\* the text of the discovery queries: a comment line, then SELECT
QueryText == <<"blank", "comment", "SELECT">>

\* how a backend answers a request: a JSON result, a body that is no JSON
\* and not empty, an empty body, a bad status
Answers == {"json", "text", "empty", "fail"}

\* self.run(query) of a model: Graph.run passes prefixes=None on to the
\* client; the result is the rows, the raw text or an exception. An empty
\* body is no JSON either and comes back as '', which holds nothing to
\* loop over: `text` marks the raw text that is not empty
Model_run(sparql, b, dflt, bindings, answer) ==
    LET r == Run(b, "query", QueryText, NoPrefixes, dflt)
    IN  IF sparql = "None" \/ r.raise # ""
        THEN [exc |-> IF sparql = "None" THEN "AttributeError" ELSE r.raise,
              sent |-> FALSE, text |-> FALSE, rows |-> <<>>, list |-> <<>>]
        ELSE IF RaisesForStatus(answer # "fail")
        THEN [exc |-> "HTTPError", sent |-> TRUE, text |-> FALSE, rows |-> <<>>, list |-> <<>>]
        ELSE [exc |-> "", sent |-> TRUE, text |-> answer = "text",
              rows |-> IF answer = "json" /\ r.req.parse THEN bindings ELSE <<>>,
              list |-> r.dflt]

\* a get_classes that keeps its result as the snapshot
Model_get_classes_caching(snapshot, q, gen) ==
    IF q.exc # "" THEN [exc |-> q.exc, ret |-> <<>>, self_classes |-> snapshot]
    ELSE IF q.text THEN [exc |-> "TypeError", ret |-> <<>>, self_classes |-> snapshot]
    ELSE LET all == [k \in 1..Len(q.rows) |->
                        Resource(ParseValue(q.rows[k].uri, q.list),
                                 LabelText(ParseValue(q.rows[k].label, q.list)), "", "owl:Class")]
                    \o get_value_classes
             ret == [k \in 1..Len(all) |-> [all[k] EXCEPT !.gen = gen, !.idx = k]]
         IN  [exc |-> "", ret |-> ret, self_classes |-> ret]

\* a get_classes that adds the value classes only to an empty response
Model_get_classes_onlyempty(snapshot, q, gen) ==
    IF q.exc # "" THEN [exc |-> q.exc, ret |-> <<>>, self_classes |-> snapshot]
    ELSE IF q.text THEN [exc |-> "TypeError", ret |-> <<>>, self_classes |-> snapshot]
    ELSE LET all == IF q.rows = <<>> THEN get_value_classes
                    ELSE [k \in 1..Len(q.rows) |->
                            Resource(ParseValue(q.rows[k].uri, q.list),
                                     LabelText(ParseValue(q.rows[k].label, q.list)), "", "owl:Class")]
         IN  [exc |-> "", ret |-> [k \in 1..Len(all) |-> [all[k] EXCEPT !.gen = gen, !.idx = k]],
              self_classes |-> snapshot]

\* Model.get_classes() on the answer q of its query, as the gen-th call:
\* what it raises, what it returns, and self.classes after it
Model_get_classes(snapshot, q, gen) ==
    IF q.exc # "" THEN [exc |-> q.exc, ret |-> <<>>, self_classes |-> snapshot]
    ELSE IF q.text THEN [exc |-> "TypeError", ret |-> <<>>, self_classes |-> snapshot]
    ELSE LET all == [k \in 1..Len(q.rows) |->
                        Resource(ParseValue(q.rows[k].uri, q.list),
                                 LabelText(ParseValue(q.rows[k].label, q.list)), "", "owl:Class")]
                    \o get_value_classes
         IN  [exc |-> "", ret |-> [k \in 1..Len(all) |-> [all[k] EXCEPT !.gen = gen, !.idx = k]],
              self_classes |-> snapshot]

\* Model.get_properties() before its query: self.prefixes.has("xsd") and
\* self.prefixes.add(Prefix("xsd", ...)); a model without the attribute
\* raises AttributeError
AddXsd(pfx, dflt) ==
    IF pfx.kind = "unset" THEN [exc |-> "AttributeError", pfx |-> pfx, dflt |-> dflt]
    ELSE IF Prefixes_has(ListOf(pfx, dflt), PrefixXsd.short)
    THEN [exc |-> "", pfx |-> pfx, dflt |-> dflt]
    ELSE [exc |-> "",
          pfx |-> IF pfx.kind = "own" THEN [pfx EXCEPT !.list = Append(@, PrefixXsd)] ELSE pfx,
          dflt |-> IF pfx.kind = "default" THEN Append(dflt, PrefixXsd) ELSE dflt]

\* Model.get_properties() on the answer q of its query: every row becomes a
\* Property whose domain and range are looked up in the snapshot cls
Model_get_properties(cls, q) ==
    IF q.exc # "" THEN [exc |-> q.exc, ret |-> <<>>]
    ELSE IF q.text THEN [exc |-> "TypeError", ret |-> <<>>]
    ELSE [exc |-> "",
          ret |-> [k \in 1..Len(q.rows) |->
                     Property(ParseValue(q.rows[k].uri, q.list),
                              LabelText(ParseValue(q.rows[k].label, q.list)),
                              find_class(cls, ParseValue(q.rows[k].domain_class_uri, q.list)),
                              find_class(cls, ParseValue(q.rows[k].range_class_uri, q.list)),
                              NoResource)]]

\* None as a URI argument
NoUri == <<"None">>

\* a find_properties that hands back the empty list on a miss
find_properties_nomiss(props, prop_uri, domain_class_uri, range_class_uri) ==
    LET IsTarget(q) == q.uri = prop_uri
    IN  SelectSeq(props, IsTarget)

\* Model.find_properties(prop_uri, domain_class_uri, range_class_uri) on the
\* snapshot props
find_properties(props, prop_uri, domain_class_uri, range_class_uri) ==
    LET InDomain(q) == q.domain # NoResource /\ q.domain.uri = domain_class_uri
        InRange(q) == q.range # NoResource /\ q.range.uri = range_class_uri
        IsTarget(q) == q.uri = prop_uri
        f1 == IF domain_class_uri # NoUri /\ domain_class_uri # <<>>
              THEN SelectSeq(props, InDomain) ELSE props
        f2 == IF range_class_uri # NoUri /\ range_class_uri # <<>>
              THEN SelectSeq(f1, InRange) ELSE f1
        target == SelectSeq(f2, IsTarget)
    IN  IF Len(target) = 0
        THEN <<Property(prop_uri, "", NoResource, NoResource, NoResource)>>
        ELSE target

\* the condition of the selection of is_prop_mandatory on property q:
\* q.uri == prop_uri and (card_of_uri is not None or
\* q.card_of.uri == card_of_uri)
MandatorySelects(q, prop_uri, card_of_uri) ==
    q.uri = prop_uri /\ (card_of_uri # NoUri \/ q.card_of.uri = card_of_uri)

\* the condition reads q.card_of.uri of a property without card_of
MandatoryRaises(q, prop_uri, card_of_uri) ==
    q.uri = prop_uri /\ card_of_uri = NoUri /\ q.card_of = NoResource

\* Model.is_prop_mandatory(prop_uri, card_of_uri) on the snapshot props:
\* what it raises and what it returns
is_prop_mandatory(props, prop_uri, card_of_uri) ==
    LET Selects(q) == MandatorySelects(q, prop_uri, card_of_uri)
        selection == SelectSeq(props, Selects)
    IN  IF \E k \in 1..Len(props) : MandatoryRaises(props[k], prop_uri, card_of_uri)
        THEN [exc |-> "AttributeError", ret |-> <<>>]
        ELSE IF Len(selection) > 1 THEN [exc |-> "Exception", ret |-> <<>>]
        ELSE [exc |-> "", ret |-> selection]

\* what an operation returned
Returned(kind, val) == [kind |-> kind, exc |-> "", val |-> val]

\* what an operation raised
Raising(exc) == [kind |-> "raise", exc |-> exc, val |-> <<>>]

\* the `prefixes` arguments of update
UpdatePrefixArgs == {NoPrefixes, DefaultPrefixes, OwnPrefixes(<<PrefixExOrg>>)}

\* the store contents
Facts == {"person", "age"}

InitModel ==
    /\ PrefixIdle
    /\ InsertIdle
    /\ RunIdle
    /\ DumpIdle
    /\ PrepIdle
    /\ backend \in Backends
    /\ prefixes = NoPrefixes
    /\ defaults = <<>>
    /\ pc = "idle"
    /\ error = ""
    /\ requests = <<>>
    /\ store = <<>>
    /\ mSparql \in {"bound", "None"}
    /\ mPrefixes \in {[kind |-> "unset", list |-> <<>>], [kind |-> "own", list |-> <<>>]}
    /\ mSparql = "bound" => mPrefixes.kind = "unset"
    /\ classes = <<>>
    /\ properties = <<>>
    /\ nGen = 0
    /\ facts \in {{}, Facts}
    /\ mOps = 0
    /\ mOp = ""
    /\ mArgs = <<>>
    /\ mAnswers = <<>>
    /\ mRet = NoReturn

\* what no operation of a model touches
ModelFrame ==
    /\ UNCHANGED <<backend, prefixes, pc, error, requests, store>>
    /\ UNCHANGED <<prefixVars, insertVars, runVars, dumpVars, prepVars>>

\* model.update(graph, prefixes): graph is None or a Graph on the client;
\* a1 and a2 are the answers of the backend to the two queries
ModelUpdate(graph, pfxArg, a1, a2) ==
    /\ mOps < MaxModelOps
    /\ mOps' = mOps + 1
    /\ mOp' = "update"
    /\ mArgs' = <<>>
    /\ UNCHANGED facts
    /\ ModelFrame
    /\ LET sparql1 == IF graph = "Graph" /\ mSparql = "None" THEN "rebound" ELSE mSparql
           pfx1 == IF pfxArg.kind # "None" THEN [kind |-> IF pfxArg.kind = "default" THEN "default" ELSE "own",
                                                list |-> pfxArg.list]
                   ELSE mPrefixes
       IN  /\ mSparql' = sparql1
           /\ IF sparql1 = "None"
              THEN /\ classes' = <<>>
                   /\ properties' = <<>>
                   /\ mPrefixes' = pfx1
                   /\ mRet' = Returned("none", <<>>)
                   /\ mAnswers' = <<>>
                   /\ UNCHANGED <<nGen, defaults>>
              ELSE LET q1 == Model_run(sparql1, backend, defaults, ClassBindings(facts), a1)
                       c == Model_get_classes(classes, q1, nGen + 1)
                       x == AddXsd(pfx1, defaults)
                       q2 == Model_run(sparql1, backend, x.dflt, PropertyBindings(facts), a2)
                       pr == Model_get_properties(c.ret, q2)
                   IN  /\ nGen' = nGen + 1
                       /\ IF c.exc # ""
                          THEN /\ mRet' = Raising(c.exc)
                               /\ mAnswers' = IF q1.sent THEN <<a1>> ELSE <<>>
                               /\ mPrefixes' = pfx1
                               /\ UNCHANGED <<classes, properties, defaults>>
                          ELSE /\ classes' = c.ret
                               /\ IF x.exc # ""
                                  THEN /\ mRet' = Raising(x.exc)
                                       /\ mAnswers' = <<a1>>
                                       /\ mPrefixes' = pfx1
                                       /\ UNCHANGED <<properties, defaults>>
                                  ELSE /\ mPrefixes' = x.pfx
                                       /\ defaults' = x.dflt
                                       /\ mAnswers' = IF q2.sent THEN <<a1, a2>> ELSE <<a1>>
                                       /\ IF pr.exc # ""
                                          THEN mRet' = Raising(pr.exc) /\ UNCHANGED properties
                                          ELSE mRet' = Returned("none", <<>>) /\ properties' = pr.ret

\* an operation other than update starts, with its URI arguments
ModelCall(op, args) ==
    /\ mOps < MaxModelOps
    /\ mOps' = mOps + 1
    /\ mOp' = op
    /\ mArgs' = args
    /\ UNCHANGED mSparql
    /\ ModelFrame

\* model.get_classes()
ModelGetClasses(a) ==
    /\ ModelCall("get_classes", <<>>)
    /\ LET q == Model_run(mSparql, backend, defaults, ClassBindings(facts), a)
           c == Model_get_classes(classes, q, nGen + 1)
       IN  /\ nGen' = nGen + 1
           /\ classes' = c.self_classes
           /\ mAnswers' = IF q.sent THEN <<a>> ELSE <<>>
           /\ mRet' = IF c.exc # "" THEN Raising(c.exc) ELSE Returned("classes", c.ret)
    /\ UNCHANGED <<mPrefixes, properties, facts, defaults>>

\* model.get_properties()
ModelGetProperties(a) ==
    /\ ModelCall("get_properties", <<>>)
    /\ LET x == AddXsd(mPrefixes, defaults)
           q == Model_run(mSparql, backend, x.dflt, PropertyBindings(facts), a)
           pr == Model_get_properties(classes, q)
       IN  /\ mPrefixes' = x.pfx
           /\ defaults' = x.dflt
           /\ mAnswers' = IF x.exc = "" /\ q.sent THEN <<a>> ELSE <<>>
           /\ mRet' = IF x.exc # "" THEN Raising(x.exc)
                      ELSE IF pr.exc # "" THEN Raising(pr.exc)
                      ELSE Returned("properties", pr.ret)
    /\ UNCHANGED <<classes, properties, nGen, facts>>

\* the URIs handed to the lookups
LookupUris == {<<"xsd", ":", "integer">>, PersonLong, AgeLong}

\* model.find_class(uri), model.find_properties(uri),
\* model.is_prop_mandatory(uri, card_of_uri)
ModelLookup(op, uri, card) ==
    /\ ModelCall(op, IF op = "is_prop_mandatory" THEN <<uri, card>> ELSE <<uri>>)
    /\ op \in {"find_class", "find_properties", "is_prop_mandatory"}
    /\ mAnswers' = <<>>
    /\ mRet' = CASE op = "find_class" -> Returned("resource", find_class(classes, uri))
                 [] op = "find_properties" ->
                        Returned("properties", find_properties(properties, uri, NoUri, NoUri))
                 [] OTHER ->
                        LET r == is_prop_mandatory(properties, uri, card)
                        IN  IF r.exc # "" THEN Raising(r.exc) ELSE Returned("property", r.ret)
    /\ UNCHANGED <<mPrefixes, classes, properties, nGen, facts, defaults>>

\* model.run(text) with a SELECT of the triples of the graph, and
\* model.dump_dict(), which repeats that query page after page until a page
\* is empty: the backend answers every page alike (a body that is no JSON
\* and not empty on every page would never end the loop and is not offered
\* to dump_dict; an empty body is a page of length 0 and ends it)
ModelRead(op, a) ==
    /\ ModelCall(op, <<>>)
    /\ op \in {"run", "dump_dict"}
    /\ op = "dump_dict" => a # "text"
    /\ LET q == Model_run(mSparql, backend, defaults, <<>>, a)
           pages == IF op = "dump_dict" /\ q.exc = "" /\ a = "json" /\ facts # {}
                    THEN <<a, a>> ELSE <<a>>
       IN  /\ mAnswers' = IF q.sent THEN pages ELSE <<>>
           /\ mRet' = IF q.exc # "" THEN Raising(q.exc)
                      ELSE IF op = "run" /\ a \in {"text", "empty"} THEN Returned("text", <<>>)
                      ELSE IF a = "empty" THEN Returned("rows", {})
                      ELSE Returned("rows", facts)
    /\ UNCHANGED <<mPrefixes, classes, properties, nGen, facts, defaults>>

\* model.insert(triples) and model.delete(triples) with the triples of one
\* fact, given with full URIs: Graph.insert calls
\* self.sparql.insert(triples, self.uri, prefixes), Graph.delete
\* self.sparql.delete(triples, self.uri, prefixes)
ModelWrite(op, fact, a) ==
    /\ ModelCall(op, <<>>)
    /\ op \in {"insert", "delete"}
    /\ LET r == Run(backend, op, IF op = "insert" THEN InsertText ELSE DeleteText,
                    NoPrefixes, defaults)
           exc == IF mSparql = "None" THEN "AttributeError"
                  ELSE IF op = "insert" /\ ~AcceptsPrefixes(backend) THEN "TypeError"
                  ELSE IF r.raise # "" THEN r.raise
                  ELSE IF RaisesForStatus(a = "json") THEN "HTTPError"
                  ELSE ""
       IN  /\ mAnswers' = IF exc \in {"", "HTTPError"} THEN <<a>> ELSE <<>>
           /\ mRet' = IF exc # "" THEN Raising(exc) ELSE Returned("none", <<>>)
           /\ facts' = IF exc # "" THEN facts
                       ELSE IF op = "insert" THEN facts \cup {fact} ELSE facts \ {fact}
    /\ UNCHANGED <<mPrefixes, classes, properties, nGen, defaults>>

\* model.upload_turtle(content) with the triples of every fact:
\* self.sparql.upload_turtle, whose chunk upload the base client lacks
ModelUpload(a) ==
    /\ ModelCall("upload_turtle", <<>>)
    /\ LET exc == IF mSparql = "None" \/ backend = "Sparql" THEN "AttributeError"
                  ELSE IF RaisesForStatus(a = "json") THEN "HTTPError"
                  ELSE ""
       IN  /\ mAnswers' = IF exc \in {"", "HTTPError"} THEN <<a>> ELSE <<>>
           /\ mRet' = IF exc # "" THEN Raising(exc) ELSE Returned("none", <<>>)
           /\ facts' = IF exc # "" THEN facts ELSE Facts
    /\ UNCHANGED <<mPrefixes, classes, properties, nGen, defaults>>

\* the answers to the two queries of an update: none is sent by a model
\* without a client or when run raises before the post, and the second
\* query is sent only when get_classes returned
UpdateAnswers(g) ==
    IF \/ g = "None" /\ mSparql = "None"
       \/ Run(backend, "query", QueryText, NoPrefixes, defaults).raise # ""
    THEN {<<"fail", "fail">>}
    ELSE {<<a1, a2>> : a1 \in {"json", "empty"}, a2 \in Answers}
            \cup {<<a1, "fail">> : a1 \in {"text", "fail"}}

NextModel ==
    \/ \E g \in {"None", "Graph"}, pa \in UpdatePrefixArgs :
          \E a \in UpdateAnswers(g) : ModelUpdate(g, pa, a[1], a[2])
    \/ \E a \in Answers : ModelGetClasses(a)
    \/ \E a \in Answers : ModelGetProperties(a)
    \/ \E op \in {"find_class", "find_properties", "is_prop_mandatory"}, u \in LookupUris :
          \E c \in (IF op = "is_prop_mandatory" THEN {NoUri, PersonLong} ELSE {NoUri}) :
             ModelLookup(op, u, c)
    \/ \E op \in {"run", "dump_dict"}, a \in Answers : ModelRead(op, a)
    \/ \E op \in {"insert", "delete"}, f \in Facts, a \in {"json", "fail"} : ModelWrite(op, f, a)
    \/ \E a \in {"json", "fail"} : ModelUpload(a)

SpecModel == InitModel /\ [][NextModel]_vars

\* ---------------------------------------------------------------------
\* models/shacl.py: the model of the shape vocabulary
\* ---------------------------------------------------------------------

\* graph.run(text, prefixes) on a graph of the client b: the rows are
\* shortened with `prefixes or Prefixes()`
Graph_run(b, pfx, dflt, bindings, answer) ==
    LET r == Run(b, "query", QueryText, pfx, dflt)
    IN  IF r.raise # ""
        THEN [exc |-> r.raise, sent |-> FALSE, text |-> FALSE, rows |-> <<>>, list |-> <<>>,
              pfx |-> pfx, dflt |-> dflt]
        ELSE IF RaisesForStatus(answer # "fail")
        THEN [exc |-> "HTTPError", sent |-> TRUE, text |-> FALSE, rows |-> <<>>, list |-> <<>>,
              pfx |-> r.pfx, dflt |-> r.dflt]
        ELSE [exc |-> "", sent |-> TRUE, text |-> answer = "text",
              rows |-> IF answer = "json" /\ r.req.parse THEN bindings ELSE <<>>,
              list |-> IF Truthy(r.pfx, r.dflt) THEN ListOf(r.pfx, r.dflt) ELSE r.dflt,
              pfx |-> r.pfx, dflt |-> r.dflt]

\* the property shapes of the store: the path :age on the node shape of
\* :Person with sh:datatype xsd:integer, and the declared sh:minCount,
\* sh:maxCount and sh:order
Shapes == [min : {0, 1}, max : {1, 2}, order : {1, 2}]

\* the bindings the store returns for the query of SHACL.get_classes: the
\* target class of the node shape
ShapeClassBindings(f) ==
    IF f # {}
    THEN << [uri |-> Binding("uri", PersonLong), label |-> Binding("literal", <<"P">>)] >>
    ELSE <<>>

\* the bindings the store returns for the query of SHACL.get_properties:
\* one row for the property shape, its numbers being xsd:integer literals
ShapePropertyBindings(f) ==
    IF f # {}
    THEN LET sh == CHOOSE x \in f : TRUE
         IN  << [ card_of_class_uri |-> Binding("uri", PersonLong),
                  label |-> Binding("uri", AgeLong),
                  order |-> Binding("literal", IntV(sh.order)),
                  min_count |-> Binding("literal", IntV(sh.min)),
                  max_count |-> Binding("literal", IntV(sh.max)),
                  domain_class_uri |-> Binding("uri", PersonLong),
                  uri |-> Binding("uri", AgeLong),
                  range_class_uri |-> Binding("uri", XsdIntegerLong) ] >>
    ELSE <<>>

\* SHACL.get_classes(graph, prefixes) on the answer q of its query
SHACL_get_classes(q, gen) ==
    IF q.exc # "" THEN [exc |-> q.exc, ret |-> <<>>]
    ELSE IF q.text THEN [exc |-> "TypeError", ret |-> <<>>]
    ELSE LET all == [k \in 1..Len(q.rows) |->
                        Resource(ParseValue(q.rows[k].uri, q.list),
                                 LabelText(ParseValue(q.rows[k].label, q.list)), "", "owl:Class")]
                    \o get_value_classes
         IN  [exc |-> "", ret |-> [k \in 1..Len(all) |-> [all[k] EXCEPT !.gen = gen, !.idx = k]]]

\* SHACL.get_properties(graph, prefixes) on the answer q of its query: every
\* row becomes Property(uri, label, "", domain, range, card_of), the three
\* Resources looked up in the snapshot cls
SHACL_get_properties(cls, q) ==
    IF q.exc # "" THEN [exc |-> q.exc, ret |-> <<>>]
    ELSE IF q.text THEN [exc |-> "TypeError", ret |-> <<>>]
    ELSE [exc |-> "",
          ret |-> [k \in 1..Len(q.rows) |->
                     Property(ParseValue(q.rows[k].uri, q.list),
                              LabelText(ParseValue(q.rows[k].label, q.list)),
                              find_class(cls, ParseValue(q.rows[k].domain_class_uri, q.list)),
                              find_class(cls, ParseValue(q.rows[k].range_class_uri, q.list)),
                              find_class(cls, ParseValue(q.rows[k].card_of_class_uri, q.list)))]]

\* the `prefixes` arguments of the calls on a shape model
ShapePrefixArgs == {NoPrefixes, OwnPrefixes(<<PrefixExOrg>>), OwnPrefixes(<<PrefixXsd>>)}

\* SHACL(): Model.__init__ is called with the three property names as its
\* first arguments, which is its legacy mode: no client, an empty registry
InitShape ==
    /\ PrefixIdle
    /\ InsertIdle
    /\ RunIdle
    /\ DumpIdle
    /\ PrepIdle
    /\ backend \in Backends
    /\ prefixes = NoPrefixes
    /\ defaults = <<>>
    /\ pc = "idle"
    /\ error = ""
    /\ requests = <<>>
    /\ store = <<>>
    /\ mSparql = "None"
    /\ mPrefixes = [kind |-> "own", list |-> <<>>]
    /\ classes = <<>>
    /\ properties = <<>>
    /\ nGen = 0
    /\ facts \in {{}} \cup {{sh} : sh \in Shapes}
    /\ mOps = 0
    /\ mOp = ""
    /\ mArgs = <<>>
    /\ mAnswers = <<>>
    /\ mRet = NoReturn

\* shacl.get_classes(graph, prefixes) with a graph of the client
ShapeGetClasses(pfxArg, a) ==
    /\ ModelCall("get_classes", <<>>)
    /\ LET q == Graph_run(backend, pfxArg, defaults, ShapeClassBindings(facts), a)
           c == SHACL_get_classes(q, nGen + 1)
       IN  /\ nGen' = nGen + 1
           /\ defaults' = q.dflt
           /\ mAnswers' = IF q.sent THEN <<a>> ELSE <<>>
           /\ mRet' = IF c.exc # "" THEN Raising(c.exc) ELSE Returned("classes", c.ret)
    /\ UNCHANGED <<mPrefixes, classes, properties, facts>>

\* shacl.get_properties(graph, prefixes) with a graph of the client
ShapeGetProperties(pfxArg, a) ==
    /\ ModelCall("get_properties", <<>>)
    /\ LET q == Graph_run(backend, pfxArg, defaults, ShapePropertyBindings(facts), a)
           pr == SHACL_get_properties(classes, q)
       IN  /\ defaults' = q.dflt
           /\ mAnswers' = IF q.sent THEN <<a>> ELSE <<>>
           /\ mRet' = IF pr.exc # "" THEN Raising(pr.exc) ELSE Returned("properties", pr.ret)
    /\ UNCHANGED <<mPrefixes, classes, properties, nGen, facts>>

\* shacl.update(graph, prefixes), which is Model.update: after the
\* rebinding it calls self.get_classes() and self.get_properties() without
\* arguments, and SHACL.get_classes takes two
ShapeUpdate(graph, pfxArg) ==
    /\ mOps < MaxModelOps
    /\ mOps' = mOps + 1
    /\ mOp' = "update"
    /\ mArgs' = <<graph>>
    /\ ModelFrame
    /\ LET sparql1 == IF graph = "Graph" /\ mSparql = "None" THEN "rebound" ELSE mSparql
       IN  /\ mSparql' = sparql1
           /\ mPrefixes' = IF pfxArg.kind # "None"
                           THEN [kind |-> "own", list |-> pfxArg.list] ELSE mPrefixes
           /\ IF sparql1 = "None"
              THEN /\ classes' = <<>>
                   /\ properties' = <<>>
                   /\ mRet' = Returned("none", <<>>)
              ELSE /\ mRet' = Raising("TypeError")
                   /\ UNCHANGED <<classes, properties>>
    /\ mAnswers' = <<>>
    /\ UNCHANGED <<nGen, facts, defaults>>

NextShape ==
    \/ \E pa \in ShapePrefixArgs, a \in Answers : ShapeGetClasses(pa, a)
    \/ \E pa \in ShapePrefixArgs, a \in Answers : ShapeGetProperties(pa, a)
    \/ \E g \in {"None", "Graph"}, pa \in ShapePrefixArgs : ShapeUpdate(g, pa)

SpecShape == InitShape /\ [][NextShape]_vars

\* ---------------------------------------------------------------------
\* is_prop_mandatory on the snapshots of a model
\* ---------------------------------------------------------------------

\* a second predicate and a second class
NameLong == <<"http://ex.org/", "name">>
CityLong == <<"http://ex.org/", "City">>

\* the predicates of the snapshot and of the calls
PropUris == {AgeLong, NameLong}

\* the card_of of a property: None, or the Resource of a class (as
\* find_class builds it for a class the snapshot lacks)
CardOfs == {NoResource, Resource(PersonLong, "", "", ""), Resource(CityLong, "", "", "")}

\* the card_of_uri argument: omitted (None) or the URI of a class
CardArgs == {NoUri, PersonLong, CityLong}

\* the properties a snapshot can hold
SnapshotProperties == {Property(u, "", NoResource, NoResource, c) : u \in PropUris, c \in CardOfs}

\* the snapshots of at most MaxProps properties
Snapshots == UNION {[1..n -> SnapshotProperties] : n \in 0..MaxProps}

InitMandatory ==
    /\ PrefixIdle
    /\ InsertIdle
    /\ RunIdle
    /\ DumpIdle
    /\ PrepIdle
    /\ backend = "Sparql"
    /\ prefixes = NoPrefixes
    /\ defaults = <<>>
    /\ pc = "idle"
    /\ error = ""
    /\ requests = <<>>
    /\ store = <<>>
    /\ mSparql = "None"
    /\ mPrefixes = [kind |-> "own", list |-> <<>>]
    /\ classes = <<>>
    /\ properties \in Snapshots
    /\ nGen = 0
    /\ facts = {}
    /\ mOps = 0
    /\ mOp = ""
    /\ mArgs = <<>>
    /\ mAnswers = <<>>
    /\ mRet = NoReturn

\* model.is_prop_mandatory(prop_uri, card_of_uri) on the snapshot
CallIsPropMandatory(prop_uri, card_of_uri) ==
    /\ ModelCall("is_prop_mandatory", <<prop_uri, card_of_uri>>)
    /\ mAnswers' = <<>>
    /\ mRet' = LET r == is_prop_mandatory(properties, prop_uri, card_of_uri)
               IN  IF r.exc # "" THEN Raising(r.exc) ELSE Returned("property", r.ret)
    /\ UNCHANGED <<mPrefixes, classes, properties, nGen, facts, defaults>>

NextMandatory ==
    \E u \in PropUris, c \in CardArgs : CallIsPropMandatory(u, c)

SpecMandatory == InitMandatory /\ [][NextMandatory]_vars

\* ---------------------------------------------------------------------
\* find_class and find_properties on the snapshots of a model
\* ---------------------------------------------------------------------

\* the classes a snapshot can hold: two URIs, with and without a label, so
\* that two classes of one URI differ
SnapshotClasses ==
    {Resource(u, l, "", "owl:Class") : u \in {PersonLong, CityLong}, l \in {"", "label"}}

\* the class snapshots of at most MaxProps classes
ClassSnapshots == UNION {[1..n -> SnapshotClasses] : n \in 0..MaxProps}

\* the properties a snapshot can hold: two predicates, with and without a
\* domain
DomainProperties ==
    {Property(u, "", d, NoResource, NoResource) :
        u \in PropUris, d \in {NoResource, Resource(PersonLong, "", "", "")}}

\* the property snapshots of at most MaxProps properties
PropertySnapshots == UNION {[1..n -> DomainProperties] : n \in 0..MaxProps}

InitLookup ==
    /\ PrefixIdle
    /\ InsertIdle
    /\ RunIdle
    /\ DumpIdle
    /\ PrepIdle
    /\ backend = "Sparql"
    /\ prefixes = NoPrefixes
    /\ defaults = <<>>
    /\ pc = "idle"
    /\ error = ""
    /\ requests = <<>>
    /\ store = <<>>
    /\ mSparql = "None"
    /\ mPrefixes = [kind |-> "own", list |-> <<>>]
    /\ \/ classes \in ClassSnapshots /\ properties = <<>>
       \/ classes = <<>> /\ properties \in PropertySnapshots
    /\ nGen = 0
    /\ facts = {}
    /\ mOps = 0
    /\ mOp = ""
    /\ mArgs = <<>>
    /\ mAnswers = <<>>
    /\ mRet = NoReturn

\* model.find_class(class_uri)
CallFindClass(class_uri) ==
    /\ ModelCall("find_class", <<class_uri>>)
    /\ mAnswers' = <<>>
    /\ mRet' = Returned("resource", find_class(classes, class_uri))
    /\ UNCHANGED <<mPrefixes, classes, properties, nGen, facts, defaults>>

\* model.find_properties(prop_uri, domain_class_uri): the domain is None
\* when omitted
CallFindProperties(prop_uri, domain_class_uri) ==
    /\ ModelCall("find_properties", <<prop_uri, domain_class_uri>>)
    /\ mAnswers' = <<>>
    /\ mRet' = Returned("properties",
                        find_properties(properties, prop_uri, domain_class_uri, NoUri))
    /\ UNCHANGED <<mPrefixes, classes, properties, nGen, facts, defaults>>

NextLookup ==
    \/ \E u \in {PersonLong, CityLong, AgeLong} : CallFindClass(u)
    \/ \E u \in PropUris \cup {PersonLong}, d \in {NoUri, PersonLong} : CallFindProperties(u, d)

SpecLookup == InitLookup /\ [][NextLookup]_vars

\* ---------------------------------------------------------------------
\* schema/statement.py: the dictionary round trip. A dict is a function
\* on its keys.
\* ---------------------------------------------------------------------

\* Resource(value, resource_type="text" or "numeric"): a value
ValueResource(value, resource_type) == [resource_type |-> resource_type, value |-> value]

\* Resource(uri, label, comment, class_uri, resource_type="blank")
BlankResource(uri, label, comment, class_uri) ==
    [Resource(uri, label, comment, class_uri) EXCEPT !.resource_type = "blank"]

\* Resource.is_value()
is_value(r) == r.resource_type = "text" \/ r.resource_type = "numeric"

\* the dict {key: value} when cond holds, the empty dict otherwise
Entry(cond, key, value) == IF cond THEN key :> value ELSE <<>>

\* obj.get(key, default)
Get(obj, key, default) == IF key \in DOMAIN obj THEN obj[key] ELSE default

\* bool(x) of a number or None
TruthyNumber(x) == x # NoneV /\ x # IntV(0)

\* Resource.to_dict()
Resource_to_dict(r) ==
    IF is_value(r)
    THEN ("resource_type" :> r.resource_type) @@ ("value" :> r.value)
    ELSE ("resource_type" :> r.resource_type) @@ ("uri" :> r.uri) @@ ("label" :> r.label)
         @@ Entry(r.comment # "None", "comment", r.comment)
         @@ Entry(r.class_uri # "None", "class_uri", r.class_uri)

\* Resource.from_dict(obj)
Resource_from_dict(obj) ==
    LET resource_type == Get(obj, "resource_type", "entity")
    IN  IF resource_type = "text" \/ resource_type = "numeric"
        THEN ValueResource(Get(obj, "value", NoneV), resource_type)
        ELSE [ Resource(Get(obj, "uri", <<"None">>), Get(obj, "label", "None"),
                        Get(obj, "comment", "None"), Get(obj, "class_uri", "None"))
               EXCEPT !.resource_type = resource_type ]

\* Property.to_dict(): the optional keys are written when their value is
\* truthy
Property_to_dict(q) ==
    ("uri" :> q.uri) @@ ("label" :> q.label) @@ ("comment" :> q.comment)
    @@ Entry(q.domain # NoResource, "domain", Resource_to_dict(q.domain))
    @@ Entry(q.range # NoResource, "range", Resource_to_dict(q.range))
    @@ Entry(q.card_of # NoResource, "card_of", Resource_to_dict(q.card_of))
    @@ Entry(TruthyNumber(q.order), "order", q.order)
    @@ Entry(TruthyNumber(q.min_count), "min_count", q.min_count)
    @@ Entry(TruthyNumber(q.max_count), "max_count", q.max_count)

\* Resource.from_dict(obj.get(key)) if the dict under key is not empty,
\* else None
NestedResource(obj, key) ==
    IF key \in DOMAIN obj /\ DOMAIN obj[key] # {}
    THEN Resource_from_dict(obj[key]) ELSE NoResource

\* Property.from_dict(obj): every absent key gives None, min_count too
Property_from_dict(obj) ==
    PropertyOf(Get(obj, "uri", <<>>), Get(obj, "label", ""), Get(obj, "comment", ""),
               NestedResource(obj, "domain"), NestedResource(obj, "range"),
               NestedResource(obj, "card_of"),
               Get(obj, "order", NoneV), Get(obj, "min_count", NoneV),
               Get(obj, "max_count", NoneV))

\* Statement(subject, predicate, object)
Statement(subject, predicate, object) ==
    [subject |-> subject, predicate |-> predicate, object |-> object]

\* Statement.from_dict(s.to_dict())
Statement_round_trip(st) ==
    Statement(Resource_from_dict(Resource_to_dict(st.subject)),
              Property_from_dict(Property_to_dict(st.predicate)),
              Resource_from_dict(Resource_to_dict(st.object)))

\* the subjects: an entity with and without label, comment and class, and
\* a blank node
Subjects ==
    { Resource(PersonLong, "", "", ""), Resource(PersonLong, "label", "comment", "owl:Class"),
      BlankResource(<<"_:", "b">>, "", "", "") }

\* the objects: an entity, the number 0, a number, the empty text
Objects ==
    { Resource(CityLong, "label", "", ""), ValueResource(IntV(0), "numeric"),
      ValueResource(IntV(5), "numeric"), ValueResource(Str(<<>>), "text") }

\* the numbers of a predicate: None, 0 and a positive one
Counts == {NoneV, IntV(0), IntV(2)}

\* the predicates, with and without domain, range and card_of
Predicates ==
    { PropertyOf(AgeLong, "label", "", d, d, d, order, min_count, max_count) :
        d \in {NoResource, Resource(PersonLong, "", "", "")},
        order \in Counts, min_count \in Counts, max_count \in Counts }

\* the statement is held as the argument of the round trip
InitStatement ==
    /\ PrefixIdle
    /\ InsertIdle
    /\ RunIdle
    /\ DumpIdle
    /\ PrepIdle
    /\ ClientIdle
    /\ mSparql = "None"
    /\ mPrefixes = [kind |-> "unset", list |-> <<>>]
    /\ classes = <<>>
    /\ properties = <<>>
    /\ nGen = 0
    /\ facts = {}
    /\ mOps = 0
    /\ mOp = ""
    /\ mArgs \in {<<Statement(sub, pred, obj)>> : sub \in Subjects, pred \in Predicates, obj \in Objects}
    /\ mAnswers = <<>>
    /\ mRet = NoReturn

\* Statement.from_dict(s.to_dict())
RoundTrip ==
    /\ mOps = 0
    /\ mOps' = 1
    /\ mOp' = "round_trip"
    /\ mRet' = Returned("statement", Statement_round_trip(mArgs[1]))
    /\ UNCHANGED <<mSparql, mPrefixes, classes, properties, nGen, facts, mArgs, mAnswers>>
    /\ UNCHANGED <<prefixVars, clientVars, insertVars, runVars, dumpVars, prepVars>>

NextStatement == RoundTrip

SpecStatement == InitStatement /\ [][NextStatement]_vars

\* ---------------------------------------------------------------------
\* schema/sparql.py and the adapters: to_dict and from_dict
\* ---------------------------------------------------------------------

\* the client cls(*args) holds after __init__: name is None unless given
Client(cls, args) ==
    [ cls |-> cls, technology_name |-> technology_name(cls), url |-> args[1],
      username |-> args[2], password |-> args[3],
      name |-> IF Len(args) = 4 THEN args[4] ELSE "None" ]

\* cls(*args): the client, or the TypeError of an __init__ that does not
\* take that many arguments
Construct(cls, args) ==
    IF Constructs(cls, Len(args))
    THEN [exc |-> "", client |-> Client(cls, args)]
    ELSE [exc |-> "TypeError", client |-> <<>>]

\* Sparql.to_dict(), inherited by every adapter: it reads
\* self.technology_name, which a client of the base class does not have
Sparql_to_dict(c) ==
    IF c.technology_name = ""
    THEN [exc |-> "AttributeError", obj |-> <<>>]
    ELSE [ exc |-> "",
           obj |-> [ technology |-> c.technology_name, url |-> c.url, username |-> c.username,
                     password |-> c.password, name |-> c.name ] ]

\* cls.from_dict(obj): Allegrograph passes url, username, password and
\* name on, Fuseki passes url, username and password; GraphDB and RDF4J
\* define none and inherit Sparql.from_dict, which raises
from_dict(cls, obj) ==
    CASE cls = "Allegrograph" ->
            Construct("Allegrograph", <<obj.url, obj.username, obj.password, obj.name>>)
      [] cls = "Fuseki" -> Construct("Fuseki", <<obj.url, obj.username, obj.password>>)
      [] OTHER -> [exc |-> "Exception", client |-> <<>>]

\* the argument lists of a constructor: with and without a name
ClientArgs ==
    {<<url, "user", pw>> : url \in {"u1", "u2"}, pw \in {"p1", "p2"}}
        \cup {<<url, "user", pw, name>> : url \in {"u1", "u2"}, pw \in {"p1", "p2"},
                                          name \in {"n1", "n2"}}

InitConfig ==
    /\ PrefixIdle
    /\ InsertIdle
    /\ RunIdle
    /\ DumpIdle
    /\ PrepIdle
    /\ backend \in RunBackends
    /\ prefixes = NoPrefixes
    /\ defaults = <<>>
    /\ pc = "new"
    /\ error = ""
    /\ requests = <<>>
    /\ store = <<>>
    /\ mSparql = "None"
    /\ mPrefixes = [kind |-> "unset", list |-> <<>>]
    /\ classes = <<>>
    /\ properties = <<>>
    /\ nGen = 0
    /\ facts = {}
    /\ mOps = 0
    /\ mOp = ""
    /\ mArgs \in ClientArgs
    /\ mAnswers = <<>>
    /\ mRet = NoReturn

\* what the steps on a client leave alone
ConfigFrame ==
    /\ UNCHANGED <<backend, prefixes, defaults, requests, store>>
    /\ UNCHANGED <<mSparql, mPrefixes, classes, properties, nGen, facts, mArgs, mAnswers>>
    /\ UNCHANGED <<prefixVars, insertVars, runVars, dumpVars, prepVars>>

\* c = B(*args)
ConfigNew ==
    /\ pc = "new"
    /\ LET r == Construct(backend, mArgs)
       IN  /\ pc' = IF r.exc = "" THEN "idle" ELSE "unbuilt"
           /\ error' = r.exc
           /\ mRet' = IF r.exc = "" THEN Returned("client", r.client) ELSE Raising(r.exc)
    /\ mOps' = mOps + 1
    /\ mOp' = "new"
    /\ ConfigFrame

\* B.from_dict(c.to_dict())
ConfigRoundTrip ==
    /\ pc = "idle"
    /\ mOp = "new"
    /\ LET d == Sparql_to_dict(mRet.val)
           r == IF d.exc # "" THEN [exc |-> d.exc, client |-> <<>>]
                ELSE from_dict(backend, d.obj)
       IN  /\ error' = r.exc
           /\ mRet' = IF r.exc = "" THEN Returned("client", r.client) ELSE Raising(r.exc)
    /\ mOps' = mOps + 1
    /\ mOp' = "from_dict"
    /\ UNCHANGED pc
    /\ ConfigFrame

NextConfig ==
    \/ ConfigNew
    \/ ConfigRoundTrip

SpecConfig == InitConfig /\ [][NextConfig]_vars

\* ---------------------------------------------------------------------
\* schema/sparql.py: upload_nquads, upload_turtle and their chunk uploads
\* ---------------------------------------------------------------------

\* most full chunks an uploaded content fills
MaxUploads == 2

\* line_number = 10000 of upload_nquads and upload_turtle
line_number == 10000

\* A content is written as the runs of its lines, in order: n lines of one
\* kind, "prefix" for a line whose strip() starts with '@prefix' and "line"
\* for any other line. The number of its lines of the kinds:
RECURSIVE CountLines(_, _)
CountLines(content, kinds) ==
    IF content = <<>> THEN 0
    ELSE (IF Head(content).kind \in kinds THEN Head(content).n ELSE 0)
            + CountLines(Tail(content), kinds)

\* the position in the content of its i-th line of the kinds
RECURSIVE LineNumber(_, _, _)
LineNumber(content, kinds, i) ==
    LET r == Head(content)
    IN  IF r.kind \in kinds
        THEN IF i <= r.n THEN i ELSE r.n + LineNumber(Tail(content), kinds, i - r.n)
        ELSE r.n + LineNumber(Tail(content), kinds, i)

\* the kinds of line an upload cuts into chunks: upload_nquads cuts
\* splitlines() as it is, upload_turtle sets the '@prefix' lines apart
ChunkedKinds(op) == IF op = "upload_turtle" THEN {"line"} ELSE {"prefix", "line"}

\* `prefixes` of upload_turtle before the join, as the positions of the
\* lines in the content; upload_nquads has none
HeaderOf(op, content) ==
    IF op = "upload_turtle"
    THEN [j \in 1..CountLines(content, {"prefix"}) |-> LineNumber(content, {"prefix"}, j)]
    ELSE <<>>

\* a slice that runs one line into the next chunk
LinesOf_overlap(n, k) == [lo |-> k * line_number + 1, hi |-> Min(n, k * line_number + line_number + 1)]

\* lines[i:i + line_number] for i = k * line_number, as the 1-based
\* positions lo..hi in the list that is cut
LinesOf(n, k) == [lo |-> k * line_number + 1, hi |-> Min(n, k * line_number + line_number)]

\* range(0, len(lines), line_number) still holds the index of chunk k
HasLines(n, k) == k * line_number < n

\* the text handed to upload_nquads_chunk or upload_turtle_chunk: for
\* Turtle '\n'.join(prefixes) + "\n" in front of the joined lines lo..hi of
\* the list, which are the lines first..last of the content
Handed(op, content, k) ==
    LET c == LinesOf(CountLines(content, ChunkedKinds(op)), k)
    IN  [ op |-> op, header |-> HeaderOf(op, content), lo |-> c.lo, hi |-> c.hi,
          first |-> LineNumber(content, ChunkedKinds(op), c.lo),
          last |-> LineNumber(content, ChunkedKinds(op), c.hi) ]

\* the exception of the chunk upload of class cls before any request: the
\* adapters post the text; the base class builds the message of its
\* Exception from self.technology_name, which it has not set
Chunk_upload_raises(cls) == IF technology_name(cls) = "" THEN "AttributeError" ELSE ""

\* the number of lines cut into chunks
UploadCounts ==
    {k * line_number + d : k \in 0..(MaxUploads - 1), d \in {0, 1, line_number - 1}}
        \cup {MaxUploads * line_number}

\* the contents handed over
Contents ==
    { << [kind |-> "prefix", n |-> h], [kind |-> "line", n |-> a],
         [kind |-> "prefix", n |-> m], [kind |-> "line", n |-> b] >> :
        h \in {0, 2}, a \in UploadCounts, m \in {0, 1}, b \in {0, 1} }

InitUpload ==
    /\ PrefixIdle
    /\ InsertIdle
    /\ RunIdle
    /\ DumpIdle
    /\ PrepIdle
    /\ backend \in Backends
    /\ prefixes = NoPrefixes
    /\ defaults = <<>>
    /\ pc = "idle"
    /\ error = ""
    /\ requests = <<>>
    /\ store = <<>>
    /\ mSparql = "None"
    /\ mPrefixes = [kind |-> "unset", list |-> <<>>]
    /\ classes = <<>>
    /\ properties = <<>>
    /\ nGen = 0
    /\ facts = {}
    /\ mOps = 0
    /\ mOp = ""
    /\ mArgs \in {<<content>> : content \in Contents}
    /\ mAnswers = <<>>
    /\ mRet = NoReturn

\* what the steps of an upload leave alone
UploadFrame ==
    /\ UNCHANGED <<backend, prefixes, defaults, store>>
    /\ UNCHANGED <<mSparql, mPrefixes, classes, properties, nGen, facts, mOps, mArgs, mAnswers, mRet>>
    /\ UNCHANGED <<prefixVars, via, triples, graph_uri, runVars, dumpVars, prepVars>>

\* client.upload_nquads(content) or client.upload_turtle(content, graph)
\* up to the loop over the chunks
EnterUpload(op) ==
    /\ pc = "idle"
    /\ pc' = "upload"
    /\ mOp' = op
    /\ chunkIdx' = 0
    /\ UNCHANGED <<error, requests>>
    /\ UploadFrame

\* one turn of the loop: the chunk is handed to the chunk upload of the
\* class, which posts it and raises for a bad status
HandChunk ==
    /\ pc = "upload"
    /\ HasLines(CountLines(mArgs[1], ChunkedKinds(mOp)), chunkIdx)
    /\ IF Chunk_upload_raises(backend) # ""
       THEN /\ pc' = "raised"
            /\ error' = Chunk_upload_raises(backend)
            /\ UNCHANGED <<requests, chunkIdx>>
       ELSE \E ok \in BOOLEAN :
               /\ requests' = Append(requests, Handed(mOp, mArgs[1], chunkIdx) @@ [ok |-> ok])
               /\ IF RaisesForStatus(ok)
                  THEN pc' = "raised" /\ error' = "HTTPError" /\ UNCHANGED chunkIdx
                  ELSE chunkIdx' = chunkIdx + 1 /\ UNCHANGED <<pc, error>>
    /\ UNCHANGED mOp
    /\ UploadFrame

\* the loop is over: the upload returns
UploadReturn ==
    /\ pc = "upload"
    /\ ~HasLines(CountLines(mArgs[1], ChunkedKinds(mOp)), chunkIdx)
    /\ pc' = "done"
    /\ UNCHANGED <<error, requests, chunkIdx, mOp>>
    /\ UploadFrame

\* client.upload_nquads_chunk(text) or client.upload_turtle_chunk(text,
\* graph), called by the caller itself
CallChunkUpload(op) ==
    /\ pc = "idle"
    /\ mOp' = op
    /\ IF Chunk_upload_raises(backend) # ""
       THEN /\ pc' = "raised"
            /\ error' = Chunk_upload_raises(backend)
            /\ UNCHANGED requests
       ELSE \E ok \in BOOLEAN :
               /\ requests' = Append(requests, [op |-> op, ok |-> ok])
               /\ pc' = IF RaisesForStatus(ok) THEN "raised" ELSE "done"
               /\ error' = IF RaisesForStatus(ok) THEN "HTTPError" ELSE ""
    /\ UNCHANGED chunkIdx
    /\ UploadFrame

NextUpload ==
    \/ \E op \in {"upload_nquads", "upload_turtle"} : EnterUpload(op)
    \/ HandChunk
    \/ UploadReturn
    \/ \E op \in {"upload_nquads_chunk", "upload_turtle_chunk"} : CallChunkUpload(op)

SpecUpload == InitUpload /\ [][NextUpload]_vars

\* ---------------------------------------------------------------------
\* schema/prefixes.py: registries made by Prefixes(), add and remove
\* ---------------------------------------------------------------------

\* most add, remove and run calls made in a row
MaxRegistryOps == 3

\* prefixes.add(p): self.prefix_list.append(p), on the list object the
\* registry holds, which for Prefixes() is the default list
Prefixes_add(pfx, dflt, p) ==
    [ pfx |-> IF pfx.kind = "own" THEN [pfx EXCEPT !.list = Append(@, p)] ELSE pfx,
      dflt |-> IF pfx.kind = "default" THEN Append(dflt, p) ELSE dflt ]

\* the entries Prefixes.remove(short, long) keeps
Kept(p, short, long) == p.short # short /\ p.long # long

\* prefixes.remove(short, long): self.prefix_list becomes a new list of the
\* entries kept, so the registry holds the default list no longer
Prefixes_remove(pfx, dflt, short, long) ==
    [ pfx |-> OwnPrefixes(SelectSeq(ListOf(pfx, dflt), LAMBDA p : Kept(p, short, long))),
      dflt |-> dflt ]

\* x: <h>, the namespace of ex under another short name
PrefixAlias == Prefix(<<"x">>, <<"h">>)

\* the entries added and the arguments of remove
RegistryEntries == {PrefixEx, PrefixOther, PrefixAlias}

\* the registry the calls are made on: Prefixes(), or one built from a list
RegistryArgs == {DefaultPrefixes, OwnPrefixes(<<PrefixEx, PrefixOther, PrefixAlias>>)}

\* `prefixes` is the registry the calls are made on, `mPrefixes` a second
\* registry made by Prefixes() that no call is made on, `backend` a client
\* whose run is called without a registry
InitRegistry ==
    /\ PrefixIdle
    /\ InsertIdle
    /\ RunIdle
    /\ DumpIdle
    /\ PrepIdle
    /\ backend \in {"Sparql", "Fuseki", "GraphDB"}
    /\ prefixes \in RegistryArgs
    /\ defaults = <<>>
    /\ pc = "idle"
    /\ error = ""
    /\ requests = <<>>
    /\ store = <<>>
    /\ mSparql = "None"
    /\ mPrefixes = DefaultPrefixes
    /\ classes = <<>>
    /\ properties = <<>>
    /\ nGen = 0
    /\ facts = {}
    /\ mOps = 0
    /\ mOp = ""
    /\ mArgs = <<>>
    /\ mAnswers = <<>>
    /\ mRet = NoReturn

\* what the calls on a registry leave alone
RegistryFrame ==
    /\ UNCHANGED <<backend, pc, error, store>>
    /\ UNCHANGED <<mSparql, mPrefixes, classes, properties, nGen, facts, mAnswers, mRet>>
    /\ UNCHANGED <<prefixVars, insertVars, runVars, dumpVars, prepVars>>

\* prefixes.add(p)
RegistryAdd(p) ==
    /\ mOps < MaxRegistryOps
    /\ LET r == Prefixes_add(prefixes, defaults, p)
       IN  prefixes' = r.pfx /\ defaults' = r.dflt
    /\ mOps' = mOps + 1
    /\ mOp' = "add"
    /\ mArgs' = <<p>>
    /\ UNCHANGED requests
    /\ RegistryFrame

\* prefixes.remove(p.short, p.long)
RegistryRemove(p) ==
    /\ mOps < MaxRegistryOps
    /\ LET r == Prefixes_remove(prefixes, defaults, p.short, p.long)
       IN  prefixes' = r.pfx /\ defaults' = r.dflt
    /\ mOps' = mOps + 1
    /\ mOp' = "remove"
    /\ mArgs' = <<p>>
    /\ UNCHANGED requests
    /\ RegistryFrame

\* client.run(text) without a registry, or with an empty one: the request
\* carries the declarations of `prefixes or Prefixes()`
RegistryRun(pfx) ==
    /\ mOps < MaxRegistryOps
    /\ ~Truthy(pfx, defaults)
    /\ LET r == Run(backend, "run", QueryText, pfx, defaults)
       IN  /\ r.raise = ""
           /\ requests' = Append(requests, Sent(r.req, 0, 0, TRUE))
           /\ defaults' = r.dflt
    /\ mOps' = mOps + 1
    /\ mOp' = "run"
    /\ mArgs' = <<>>
    /\ UNCHANGED prefixes
    /\ RegistryFrame

NextRegistry ==
    \/ \E p \in RegistryEntries : RegistryAdd(p)
    \/ \E p \in RegistryEntries : RegistryRemove(p)
    \/ \E pfx \in {NoPrefixes, OwnPrefixes(<<>>)} : RegistryRun(pfx)

SpecRegistry == InitRegistry /\ [][NextRegistry]_vars

\* ---------------------------------------------------------------------
\* Properties of the discovered model
\* ---------------------------------------------------------------------

\* the list cls holds the built-in value class r (whatever call built it)
HoldsValueClass(cls, r) ==
    \E k \in 1..Len(cls) : [cls[k] EXCEPT !.gen = 0, !.idx = 0] = r

\* the list cls holds every built-in value class
HoldsCatalog(cls) ==
    \A k \in 1..Len(get_value_classes) : HoldsValueClass(cls, get_value_classes[k])

\* the URIs of the built-in value classes
CatalogUris == {get_value_classes[k].uri : k \in 1..Len(get_value_classes)}

\* C15 as stated: whatever the backend answers to get_classes, the result
\* holds every built-in value class, and the catalog has 22 datatypes
C15_CatalogOf22 ==
    (mOp = "get_classes" /\ mAnswers # <<>>) =>
        /\ mRet.kind = "classes"
        /\ HoldsCatalog(mRet.val)
        /\ Cardinality(CatalogUris) = 22

\* C15 amended: whenever get_classes returns, on an empty graph too, its
\* result holds every built-in value class after the classes of the
\* response (an empty body is a response without classes), and the catalog
\* has 23 datatypes with distinct URIs: 22 of xsd and rdf:HTML
C15_CatalogOf23 ==
    (mOp = "get_classes" /\ mRet.kind = "classes") =>
        /\ HoldsCatalog(mRet.val)
        /\ Len(mRet.val) = (IF mAnswers = <<"json">> THEN Len(ClassBindings(facts)) ELSE 0)
                                + Len(get_value_classes)
        /\ Len(get_value_classes) = 23
        /\ Cardinality(CatalogUris) = 23
        /\ Cardinality({u \in CatalogUris : u[1] = "xsd"}) = 22
        /\ <<"rdf", ":", "HTML">> \in CatalogUris

\* get_classes returned the class of a non-empty graph and the catalog
C15_Witness ==
    /\ mOp = "get_classes"
    /\ mRet.kind = "classes"
    /\ mAnswers = <<"json">>
    /\ Len(mRet.val) > Len(get_value_classes)

\* the URI xsd:integer of the built-in value class
XsdInteger == <<"xsd", ":", "integer">>

\* C16: when both discovery queries of an update of a bound model are
\* answered and the property query has the row of the integer-valued
\* property, the update yields a Property whose range.uri is xsd:integer
\* and whose range is the very xsd:integer Resource of the classes
\* snapshot of this update
C16_IntegerRangeIsBuiltIn ==
    (mOp = "update" /\ mSparql # "None" /\ mAnswers = <<"json", "json">> /\ "age" \in facts) =>
        /\ mRet.kind # "raise"
        /\ Len(properties) = 1
        /\ properties[1].range.uri = XsdInteger
        /\ \E k \in 1..Len(classes) :
              /\ classes[k] = properties[1].range
              /\ classes[k].gen = nGen
              /\ HoldsValueClass(<<classes[k]>>, get_value_classes[2])

\* a step that is a call of update which raises
UpdateFails ==
    /\ mOps' = mOps + 1
    /\ mOp' = "update"
    /\ mRet'.kind = "raise"

\* C17: an update in which a discovery query fails leaves both snapshots
\* as they were, so classes and properties are always replaced together
C17_SnapshotsTogether ==
    [][UpdateFails => (classes' = classes /\ properties' = properties)]_vars

\* a step that is a call of an operation other than update
OtherCall ==
    /\ mOps' = mOps + 1
    /\ mOp' # "update"

\* C18: only update assigns the snapshots: run, insert, delete, dump_dict,
\* upload_turtle, get_classes, get_properties, find_class, find_properties
\* and is_prop_mandatory leave classes and properties as they were, also
\* when they change the store
C18_OnlyUpdateAssigns ==
    [][OtherCall => (classes' = classes /\ properties' = properties)]_vars

\* an insert has put the person class into the store, and the snapshot,
\* taken by an earlier update, does not hold it
C18_Witness ==
    /\ mOp = "insert"
    /\ mRet.kind = "none"
    /\ "person" \in facts
    /\ Len(classes) = Len(get_value_classes)
    /\ \A k \in 1..Len(classes) : classes[k].uri # PersonLong

\* the snapshot holds two properties of predicate u with the same card_of
\* class, and c is that class or None
TwoOnSameClass(u, c) ==
    \E j, k \in 1..Len(properties) :
        /\ j # k
        /\ properties[j].uri = u
        /\ properties[k].uri = u
        /\ properties[j].card_of # NoResource
        /\ properties[j].card_of = properties[k].card_of
        /\ c \in {NoUri, properties[j].card_of.uri}

\* the snapshot holds no property of predicate u
NoneOfPredicate(u) == \A k \in 1..Len(properties) : properties[k].uri # u

\* C19: is_prop_mandatory raises the multiple-match error when the snapshot
\* holds two properties of the predicate with the same card_of class
\* (asked without a class or with that class), and returns None without an
\* error when the snapshot holds no property of the predicate
C19_DuplicateRaisesNoMatchNone ==
    mOp = "is_prop_mandatory" =>
        /\ TwoOnSameClass(mArgs[1], mArgs[2]) => mRet = Raising("Exception")
        /\ NoneOfPredicate(mArgs[1]) => mRet = Returned("property", <<>>)

\* the properties is_prop_mandatory is to consider: those of the predicate,
\* and with a card_of_uri those whose card_of.uri equals it
Considered(props, prop_uri, card_of_uri) ==
    LET Fits(q) == /\ q.uri = prop_uri
                   /\ card_of_uri # NoUri =>
                          (q.card_of # NoResource /\ q.card_of.uri = card_of_uri)
    IN  SelectSeq(props, Fits)

\* C20: is_prop_mandatory decides on the properties of the predicate whose
\* card_of.uri equals card_of_uri when it is given, and on every property
\* of the predicate when it is omitted: more than one is the multiple-match
\* error, one is returned, none gives None
C20_FiltersByCardOf ==
    mOp = "is_prop_mandatory" =>
        LET sel == Considered(properties, mArgs[1], mArgs[2])
        IN  IF Len(sel) > 1 THEN mRet = Raising("Exception")
            ELSE mRet = Returned("property", sel)

\* the places of the snapshot classes that have the URI u
ClassPlaces(u) == {k \in 1..Len(classes) : classes[k].uri = u}

\* the places of the snapshot properties that have the predicate u and, when
\* a domain d is asked for, that domain
PropertyPlaces(u, d) ==
    {k \in 1..Len(properties) :
        /\ properties[k].uri = u
        /\ d # NoUri => (properties[k].domain # NoResource /\ properties[k].domain.uri = d)}

\* the sequence sub is the sequence seq restricted to the places in keep, in
\* the order of seq
IsRestriction(sub, seq, keep) ==
    /\ Len(sub) = Cardinality(keep)
    /\ \A k \in keep :
          sub[Cardinality({j \in keep : j <= k})] = seq[k]

\* C21: a lookup never raises and never returns None: find_class returns
\* the first class of the snapshot with the URI, or a Resource carrying
\* only the URI; find_properties returns every matching property of the
\* snapshot in order, or a list of one Property carrying only the URI
C21_LookupMissIsPlaceholder ==
    /\ mOp = "find_class" =>
          /\ mRet.kind = "resource"
          /\ IF ClassPlaces(mArgs[1]) # {}
             THEN \E k \in ClassPlaces(mArgs[1]) :
                     /\ mRet.val = classes[k]
                     /\ \A j \in ClassPlaces(mArgs[1]) : k <= j
             ELSE /\ mRet.val.uri = mArgs[1]
                  /\ mRet.val.label = "None"
                  /\ mRet.val.comment = "None"
                  /\ mRet.val.class_uri = "None"
    /\ mOp = "find_properties" =>
          /\ mRet.kind = "properties"
          /\ Len(mRet.val) >= 1
          /\ IF PropertyPlaces(mArgs[1], mArgs[2]) # {}
             THEN IsRestriction(mRet.val, properties, PropertyPlaces(mArgs[1], mArgs[2]))
             ELSE /\ Len(mRet.val) = 1
                  /\ mRet.val[1].uri = mArgs[1]
                  /\ mRet.val[1].label = "None"
                  /\ mRet.val[1].domain = NoResource
                  /\ mRet.val[1].range = NoResource
                  /\ mRet.val[1].card_of = NoResource

\* find_properties missed on a snapshot that holds properties and returned
\* the one placeholder
C21_Witness ==
    /\ mOp = "find_properties"
    /\ properties # <<>>
    /\ PropertyPlaces(mArgs[1], mArgs[2]) = {}
    /\ Len(mRet.val) = 1

\* the last operation of a model that was constructed with a client (and
\* a graph URI and a registry, which Graph.__init__ does not keep) got as
\* far as get_properties: it was get_properties itself, or an update whose
\* class query was answered
ReachedGetProperties ==
    /\ mSparql = "bound"
    /\ \/ mOp = "get_properties"
       \/ mOp = "update" /\ Len(mAnswers) >= 1 /\ mAnswers[1] = "json"

\* the entries of the model's registry with short name xsd
XsdEntries ==
    LET list == ListOf(mPrefixes, defaults)
    IN  {k \in 1..Len(list) : list[k].short = PrefixXsd.short}

\* C22: once get_properties of a model constructed with a client and a
\* registry has run, alone or within update, the model has a registry and the registry holds exactly one
\* entry of short name xsd
C22_RegistryHasOneXsd ==
    ReachedGetProperties =>
        /\ mPrefixes.kind # "unset"
        /\ mRet.exc # "AttributeError"
        /\ Cardinality(XsdEntries) = 1

\* C23: get_properties of a shape model, answered with the row of a
\* property shape that declares sh:minCount m, sh:maxCount n and sh:order
\* k, returns a Property with min_count m, max_count n and order k, which
\* is mandatory exactly when m is not 0
C23_ShapeCountsKept ==
    (mOp = "get_properties" /\ mAnswers = <<"json">> /\ facts # {}) =>
        LET sh == CHOOSE x \in facts : TRUE
        IN  /\ mRet.kind = "properties"
            /\ Len(mRet.val) = 1
            /\ mRet.val[1].min_count = IntV(sh.min)
            /\ mRet.val[1].max_count = IntV(sh.max)
            /\ mRet.val[1].order = IntV(sh.order)
            /\ is_mandatory(mRet.val[1]) <=> sh.min # 0

\* C24: update(graph, prefixes) of a shape model with a graph bound to a
\* backend raises nothing and leaves as snapshots the results of the two
\* shape queries: the classes with the value classes, and one property for
\* every property shape
C24_ShapeUpdateCompletes ==
    (mOp = "update" /\ mArgs = <<"Graph">>) =>
        /\ mRet.kind # "raise"
        /\ HoldsCatalog(classes)
        /\ Len(classes) = Len(ShapeClassBindings(facts)) + Len(get_value_classes)
        /\ Len(properties) = Len(ShapePropertyBindings(facts))

\* C25: Statement.from_dict(s.to_dict()) is s: subject, object and every
\* field of the predicate are kept, and a predicate of min_count 0 has
\* min_count 0 and is not mandatory after the round trip
C25_StatementRoundTrip ==
    mOp = "round_trip" =>
        /\ mRet.val = mArgs[1]
        /\ mArgs[1].predicate.min_count = IntV(0) =>
              /\ mRet.val.predicate.min_count = IntV(0)
              /\ ~is_mandatory(mRet.val.predicate)

\* the backend adapters
Adapters == {"Allegrograph", "Fuseki", "GraphDB", "RDF4J"}

\* C26: for a client c of an adapter B, B.from_dict(c.to_dict()) returns a
\* client of B whose to_dict() is c.to_dict()
C26_ClientRoundTrip ==
    (mOp = "from_dict" /\ backend \in Adapters) =>
        /\ mRet.kind = "client"
        /\ mRet.val.cls = backend
        /\ Sparql_to_dict(mRet.val).exc = ""
        /\ Sparql_to_dict(mRet.val).obj = Sparql_to_dict(Client(backend, mArgs)).obj

\* the chunked lines request r carries
LinesIn(r) == r.hi - r.lo + 1

\* C27: an upload that returns has handed the content over in
\* ceil(n / 10000) calls, one after the other, where n is the number of
\* lines cut into chunks (every line for N-Quads, every line that is not a
\* '@prefix' line for Turtle): every call carries at most 10000 of them,
\* the calls carry them from the first to the last in the order of the
\* content, every one in exactly one call, and every Turtle call starts
\* with all '@prefix' lines of the content, in their order
C27_UploadInChunks ==
    (pc = "done" /\ mOp \in {"upload_nquads", "upload_turtle"}) =>
        LET n == CountLines(mArgs[1], ChunkedKinds(mOp))
        IN  /\ Len(requests) = (n + 9999) \div 10000
            /\ \A k \in 1..Len(requests) :
                  /\ requests[k].op = mOp
                  /\ LinesIn(requests[k]) >= 1
                  /\ LinesIn(requests[k]) <= 10000
                  /\ requests[k].lo = IF k = 1 THEN 1 ELSE requests[k - 1].hi + 1
                  /\ k > 1 => requests[k].first > requests[k - 1].last
                  /\ requests[k].last - requests[k].first >= requests[k].hi - requests[k].lo
                  /\ mOp = "upload_turtle" =>
                        /\ Len(requests[k].header) = CountLines(mArgs[1], {"prefix"})
                        /\ \A j \in 1..Len(requests[k].header) :
                              /\ requests[k].header[j] = LineNumber(mArgs[1], {"prefix"}, j)
                              /\ j > 1 => requests[k].header[j] > requests[k].header[j - 1]
            /\ Len(requests) > 0 => requests[Len(requests)].hi = n

\* C27 witness: a Turtle content of 3 '@prefix' lines, one of them after
\* 20,000 other lines, and 20,001 other lines went out in 3 calls of
\* 10000, 10000 and 1 lines, each behind the 3 '@prefix' lines
C27_Witness ==
    /\ pc = "done"
    /\ mOp = "upload_turtle"
    /\ Len(requests) = 3
    /\ [k \in 1..3 |-> LinesIn(requests[k])] = <<10000, 10000, 1>>
    /\ \A k \in 1..3 : requests[k].header = <<1, 2, 20003>>

\* C28: a chunk upload called on the base client, by the caller or by
\* upload_nquads / upload_turtle for a content with a line to hand over,
\* sends nothing and ends with the not-implemented Exception
C28_BaseChunkNotImplemented ==
    (/\ backend = "Sparql"
     /\ mOp # ""
     /\ pc \in {"raised", "done"}
     /\ mOp \in {"upload_nquads", "upload_turtle"} =>
            CountLines(mArgs[1], ChunkedKinds(mOp)) > 0) =>
        /\ requests = <<>>
        /\ pc = "raised"
        /\ error = "Exception"

\* the entry p is the one remove(short, long) names
Named(p, short, long) == p.short = short /\ p.long = long

\* C29: a remove(short, long) leaves in the registry, in their order,
\* exactly the entries that differ from the arguments in the short name or
\* in the namespace: an entry that shares only one of the two stays
C29_RemoveExactEntries ==
    [][ (mOp' = "remove" /\ mOps' = mOps + 1) =>
            ListOf(prefixes', defaults') =
                SelectSeq(ListOf(prefixes, defaults),
                          LAMBDA p : ~Named(p, mArgs'[1].short, mArgs'[1].long)) ]_vars

\* C30: a registry made by Prefixes() on which no call is made has no
\* entries, whatever was added to or removed from another registry, and a
\* request of a run without a registry, or with an empty one, carries no
\* PREFIX declaration
C30_DefaultRegistriesApart ==
    /\ ListOf(mPrefixes, defaults) = <<>>
    /\ \A k \in 1..Len(requests) : requests[k].decls = <<>>

=============================================================================
